---- MODULE Spec2Model ----
(***************************************************************************)
(* Model of the admission policy of listenlabs-challenge: the run loop of  *)
(* bouncer.py (main), its decision function decide_enhanced with every     *)
(* helper it calls, and the decision functions of scenario1.py,            *)
(* scenario2.py and scenario3.py.                                          *)
(*                                                                         *)
(* Python floats are modelled as exact rationals <<numerator, denominator>>*)
(* (denominator > 0, lowest terms), so every comparison of the source is   *)
(* decided as the real-number comparison it stands for.                    *)
(***************************************************************************)
EXTENDS Integers, Sequences, FiniteSets, TLC

(***************************************************************************)
(* Bounds of the model.  DEFAULT_N is the capacity N (1000 in the source,  *)
(* bouncer.py line 105); the endgame windows of SCENARIO_CONFIGS (30, 50,  *)
(* 100 of 1000 slots) are scaled with it so that states inside and         *)
(* outside the window are both reached.                                    *)
(***************************************************************************)
DEFAULT_N == 3

MaxSeen == 4

ENDGAME_SIZE_1 == 1

ENDGAME_SIZE_2 == 2

ENDGAME_SIZE_3 == 3

\* main is run at most this many times on one checkpoint file
MaxInvocations == 2

\* window_size of the thresholds called on their own
ThresholdWindow == 6

\* a capacity beyond the finishing window of scenario2.decide
LARGE_N == 100

\* the decisions the threshold of decide_enhanced looks back on (100 in the
\* code) and the decisions kept in a checkpoint (rejection_history[-500:]
\* in main), scaled below MaxSeen so that a run outgrows both; as in the
\* code a checkpoint keeps more than the threshold reads
HISTORY_WINDOW == 1

CHECKPOINT_HISTORY == 2

(***************************************************************************)
(* Program constants.                                                      *)
(***************************************************************************)
DEFAULT_K0 == 100

A_W == "well_connected"

A_C == "creative"

Attrs == {A_C, A_W}

(***************************************************************************)
(* Exact rational arithmetic standing for the float arithmetic.            *)
(***************************************************************************)
Abs(x) == IF x < 0 THEN -x ELSE x

Max(x, y) == IF x >= y THEN x ELSE y

Min(x, y) == IF x <= y THEN x ELSE y

RECURSIVE GCD(_, _)
GCD(a, b) == IF b = 0 THEN a ELSE GCD(b, a % b)

LCM(a, b) == (a \div GCD(a, b)) * b

Rat(n, d) ==
    LET g == GCD(Abs(n), d)
    IN  IF g = 0 THEN <<0, 1>> ELSE <<n \div g, d \div g>>

Int2R(n) == <<n, 1>>

Zero == <<0, 1>>

One == <<1, 1>>

RAdd(x, y) ==
    LET L == LCM(x[2], y[2])
    IN  Rat(x[1] * (L \div x[2]) + y[1] * (L \div y[2]), L)

RNeg(x) == <<-x[1], x[2]>>

RSub(x, y) == RAdd(x, RNeg(y))

RMul(x, y) ==
    LET g1 == GCD(Abs(x[1]), y[2])
        g2 == GCD(Abs(y[1]), x[2])
    IN  IF x[1] = 0 \/ y[1] = 0 THEN Zero
        ELSE <<(x[1] \div g1) * (y[1] \div g2), (x[2] \div g2) * (y[2] \div g1)>>

\* x / y for y # 0
RDiv(x, y) ==
    IF y[1] > 0 THEN RMul(x, <<y[2], y[1]>>) ELSE RMul(x, <<-y[2], -y[1]>>)

\* x < y, by comparing the integer parts and then, the other way round, the
\* reciprocals of the fractional parts (no product is formed)
RECURSIVE RLt(_, _)
RLt(x, y) ==
    LET qx == x[1] \div x[2]
        qy == y[1] \div y[2]
        rx == x[1] % x[2]
        ry == y[1] % y[2]
    IN  IF qx # qy THEN qx < qy
        ELSE IF ry = 0 THEN FALSE
        ELSE IF rx = 0 THEN TRUE
        ELSE RLt(<<y[2], ry>>, <<x[2], rx>>)

RLe(x, y) == ~RLt(y, x)

RMax(x, y) == IF RLt(x, y) THEN y ELSE x

RMin(x, y) == IF RLt(y, x) THEN y ELSE x

RECURSIVE RSumOver(_, _)
RSumOver(f, S) ==
    IF S = {} THEN Zero
    ELSE LET x == CHOOSE y \in S : TRUE
         IN  RAdd(f[x], RSumOver(f, S \ {x}))

\* sum of the rationals f[x], x in DOMAIN f
RSum(f) == RSumOver(f, DOMAIN f)

RECURSIVE RMaxOver(_, _, _)
RMaxOver(f, S, start) ==
    IF S = {} THEN start
    ELSE LET x == CHOOSE y \in S : TRUE
         IN  RMaxOver(f, S \ {x}, RMax(start, f[x]))

RECURSIVE SumSeq(_)
SumSeq(s) == IF s = <<>> THEN 0 ELSE Head(s) + SumSeq(Tail(s))

(***************************************************************************)
(* Dictionary reads with defaults: person.get(a, False),                   *)
(* state.counts.get(a, 0), state.freqs.get(a, default),                    *)
(* state.corr.get(a1, {}).get(a2, 0.0).                                    *)
(***************************************************************************)
\* variant: person.get(a, True)
Has_default_true(person, a) == IF a \in DOMAIN person THEN person[a] ELSE TRUE

Has(person, a) == IF a \in DOMAIN person THEN person[a] ELSE FALSE

CountOf(state, a) == IF a \in DOMAIN state.counts THEN state.counts[a] ELSE 0

SeenOf(state, a) ==
    IF a \in DOMAIN state.seen_counts THEN state.seen_counts[a] ELSE 0

FreqOf(state, a, default) ==
    IF a \in DOMAIN state.freqs THEN state.freqs[a] ELSE default

CorrOf(state, a1, a2) ==
    IF <<a1, a2>> \in DOMAIN state.corr THEN state.corr[<<a1, a2>>] ELSE Zero

\* the attributes a person map holds with value True
TrueAttrs(person) == {a \in DOMAIN person : person[a]}

\* need = max(0, M_a - state.counts.get(a, 0))
Need(state, a) == Max(0, state.constraints[a] - CountOf(state, a))

Remaining(state) == state.N - state.admitted_count

(***************************************************************************)
(* bouncer.py: the helpers of the decision.                                *)
(***************************************************************************)
\* variant: the guard compares the need with R, not with R - 1
hard_safety_off_by_one(person, state) ==
    LET R == state.N - state.admitted_count
    IN  \A a \in DOMAIN state.constraints :
            ~(~Has(person, a) /\ R < Need(state, a))

\* variant: a must-accept attribute passes the guard whatever the candidate
\* lacks
hard_safety_accept_wins(person, state) ==
    LET R == state.N - state.admitted_count
    IN  \/ \E a \in DOMAIN state.constraints :
               Has(person, a) /\ (R - 1) < Need(state, a)
        \/ \A a \in DOMAIN state.constraints :
               ~(~Has(person, a) /\ (R - 1) < Need(state, a))

\* variant: no guard
hard_safety_none(person, state) == TRUE

hard_safety(person, state) ==
    LET R == state.N - state.admitted_count
    IN  \A a \in DOMAIN state.constraints :
            ~(~Has(person, a) /\ (R - 1) < Need(state, a))

deficit_first(person, state) ==
    \E a \in DOMAIN state.constraints :
        (state.constraints[a] - CountOf(state, a)) > 0 /\ Has(person, a)

\* variant: the minimums are never reported met
all_constraints_met_never(state) == FALSE

all_constraints_met(state) ==
    \A a \in DOMAIN state.constraints : ~(CountOf(state, a) < state.constraints[a])

constraint_score(person, state, w_help, w_penalty, w_corr) ==
    LET R == Max(1, state.N - state.admitted_count)
        urgency == [a \in DOMAIN state.constraints |-> Rat(Need(state, a), R)]
        direct == [a \in DOMAIN state.constraints |->
                     IF Has(person, a) THEN RMul(w_help, urgency[a])
                     ELSE RNeg(RMul(w_penalty, urgency[a]))]
        pairs == {p \in TrueAttrs(person) \X DOMAIN state.constraints :
                     Need(state, p[2]) > 0 /\ RLt(Zero, CorrOf(state, p[1], p[2]))}
        bonus == [p \in pairs |->
                     RMul(RMul(w_corr, CorrOf(state, p[1], p[2])), urgency[p[2]])]
    IN  RAdd(RSum(direct), RSum(bonus))

\* variant: the base grows with progress
dynamic_threshold_growing(state, base_start) ==
    LET progress == IF state.N > 0 THEN Rat(state.admitted_count, state.N) ELSE Zero
        base == RMul(base_start, RAdd(One, progress))
        pressure == [a \in DOMAIN state.constraints |->
                       RSub(IF state.N > 0 THEN Rat(state.constraints[a], state.N) ELSE Zero,
                            Rat(CountOf(state, a), Max(1, state.admitted_count)))]
        max_pressure == RMaxOver(pressure, DOMAIN pressure, Zero)
    IN  RAdd(base, max_pressure)

dynamic_threshold(state, base_start) ==
    LET progress == IF state.N > 0 THEN Rat(state.admitted_count, state.N) ELSE Zero
        base == RMul(base_start, RSub(One, progress))
        pressure == [a \in DOMAIN state.constraints |->
                       RSub(IF state.N > 0 THEN Rat(state.constraints[a], state.N) ELSE Zero,
                            Rat(CountOf(state, a), Max(1, state.admitted_count)))]
        max_pressure == RMaxOver(pressure, DOMAIN pressure, Zero)
    IN  RAdd(base, max_pressure)

\* variant: the projection is not checked
conservative_endgame_always(person, state) == TRUE

\* variant: the candidate's own slot is projected as well (R in place of R - 1)
conservative_endgame_own_slot(person, state) ==
    LET R == state.N - state.admitted_count
    IN  \A a \in DOMAIN state.constraints :
            LET cur == CountOf(state, a) + (IF Has(person, a) THEN 1 ELSE 0)
                exp_max == RAdd(Int2R(cur), RMul(Int2R(R), FreqOf(state, a, Zero)))
            IN  ~RLt(exp_max, Int2R(state.constraints[a]))

conservative_endgame(person, state) ==
    LET R == state.N - state.admitted_count
    IN  \A a \in DOMAIN state.constraints :
            LET cur == CountOf(state, a) + (IF Has(person, a) THEN 1 ELSE 0)
                exp_max == RAdd(Int2R(cur), RMul(Int2R(R - 1), FreqOf(state, a, Zero)))
            IN  ~RLt(exp_max, Int2R(state.constraints[a]))

\* state.freqs after update_adaptive_freqs(state, k0)
update_adaptive_freqs(state, k0) ==
    IF state.total_seen <= 0 THEN state.freqs
    ELSE LET w == RMin(<<9, 10>>, Rat(k0, Max(1, state.total_seen)))
         IN  [a \in DOMAIN state.freqs |->
                LET obs == Rat(SeenOf(state, a), state.total_seen)
                IN  RAdd(RMul(w, state.freqs[a]), RMul(RSub(One, w), obs))]

enhanced_correlation_score(person, state, lookahead_depth) ==
    LET R == state.N - state.admitted_count
        pairs == {p \in TrueAttrs(person) \X DOMAIN state.constraints :
                     /\ p[2] # p[1]
                     /\ RLt(Zero, CorrOf(state, p[1], p[2]))
                     /\ Need(state, p[2]) > 0}
        term == [p \in pairs |->
                   LET correlation == CorrOf(state, p[1], p[2])
                       expected_future == RMul(correlation, FreqOf(state, p[2], <<1, 2>>))
                       discount == RDiv(One, RAdd(One, RMul(Int2R(lookahead_depth),
                                                           RSub(One, correlation))))
                   IN  RMul(RMul(expected_future, discount), Rat(Need(state, p[2]), R))]
    IN  RSum(term)

(***************************************************************************)
(* SCENARIO_CONFIGS, and SCENARIO_CONFIGS.get(scenario, SCENARIO_CONFIGS[2])*)
(***************************************************************************)
SCENARIO_CONFIGS ==
    [s \in {1, 2, 3} |->
        CASE s = 1 -> [endgame_size |-> ENDGAME_SIZE_1, w_help |-> <<3, 2>>,
                       w_penalty |-> <<3, 10>>, w_corr |-> <<3, 20>>,
                       base_start |-> <<3, 10>>, buffer_multiplier |-> Zero]
          [] s = 2 -> [endgame_size |-> ENDGAME_SIZE_2, w_help |-> <<2, 1>>,
                       w_penalty |-> <<1, 2>>, w_corr |-> <<1, 5>>,
                       base_start |-> <<1, 2>>, buffer_multiplier |-> <<1, 20>>]
          [] s = 3 -> [endgame_size |-> ENDGAME_SIZE_3, w_help |-> <<3, 1>>,
                       w_penalty |-> <<4, 5>>, w_corr |-> <<3, 10>>,
                       base_start |-> <<7, 10>>, buffer_multiplier |-> <<1, 10>>]]

ConfigOf(scenario) ==
    IF scenario \in DOMAIN SCENARIO_CONFIGS THEN SCENARIO_CONFIGS[scenario]
    ELSE SCENARIO_CONFIGS[2]

\* rejection_history[-window_size:]
LastN(history, window_size) ==
    IF window_size = 0 \/ window_size >= Len(history) THEN history
    ELSE SubSeq(history, Len(history) - window_size + 1, Len(history))

adaptive_threshold_with_history(state, base_start, rejection_history, window_size) ==
    LET progress == Rat(state.admitted_count, state.N)
        base0 == RMul(base_start, RSub(One, progress))
        pressure == [a \in DOMAIN state.constraints |->
                       RSub(Rat(state.constraints[a], state.N),
                            Rat(CountOf(state, a), Max(1, state.admitted_count)))]
        max_pressure == RMaxOver(pressure, DOMAIN pressure, Zero)
        recent_rate == Rat(SumSeq(LastN(rejection_history, window_size)), window_size)
        base == IF Len(rejection_history) >= window_size
                THEN IF RLt(<<9, 10>>, recent_rate) THEN RMul(base0, <<4, 5>>)
                     ELSE IF RLt(<<4, 5>>, recent_rate) THEN RMul(base0, <<9, 10>>)
                     ELSE IF RLt(recent_rate, <<3, 10>>) /\ RLt(<<1, 10>>, max_pressure)
                          THEN RMul(base0, <<6, 5>>)
                          ELSE base0
                ELSE base0
    IN  RAdd(base, max_pressure)

\* the pair (accept, max_criticality) prioritized_deficit_check returns
\* variant: no attribute of the candidate is reported as a deficit
prioritized_deficit_check_none(person, state) == <<FALSE, Zero>>

\* variant: a deficit is reported only while a slot is free
prioritized_deficit_check_free_slot(person, state) ==
    LET R == state.N - state.admitted_count
        critical == {a \in DOMAIN state.constraints : Need(state, a) > 0 /\ Has(person, a)}
        criticality == [a \in critical |->
            RDiv(Int2R(Need(state, a)),
                 RMax(<<1, 100>>, RMul(Int2R(R), FreqOf(state, a, One))))]
    IN  IF critical # {} /\ R > 0 THEN <<TRUE, RMaxOver(criticality, critical, Zero)>>
        ELSE <<FALSE, Zero>>

prioritized_deficit_check(person, state) ==
    LET R == state.N - state.admitted_count
        critical == {a \in DOMAIN state.constraints : Need(state, a) > 0 /\ Has(person, a)}
        criticality == [a \in critical |->
            \* max_possible - need = R * freqs.get(a, 1.0)
            RDiv(Int2R(Need(state, a)),
                 RMax(<<1, 100>>, RMul(Int2R(R), FreqOf(state, a, One))))]
    IN  IF critical # {} THEN <<TRUE, RMaxOver(criticality, critical, Zero)>>
        ELSE <<FALSE, Zero>>

calculate_expected_value(person, state, future_horizon) ==
    LET R == state.N - state.admitted_count
        helped == {a \in DOMAIN state.constraints : Has(person, a) /\ Need(state, a) > 0}
        direct_value == RSum([a \in helped |-> Rat(1, Max(1, Need(state, a)))])
        missed == {a \in DOMAIN state.constraints : ~Has(person, a) /\ Need(state, a) > 0}
        opportunity_cost ==
            RSum([a \in missed |->
                    RMul(RSub(One, FreqOf(state, a, <<1, 2>>)), Rat(Need(state, a), R))])
        future_value == enhanced_correlation_score(person, state, 3)
    IN  RAdd(RSub(direct_value, opportunity_cost), RMul(<<1, 2>>, future_value))

\* variant: scoring tallies the candidate into counts
Scored_tallies(person, state, scenario) ==
    [state |-> [state EXCEPT !.counts = [a \in DOMAIN state.counts |->
                                            IF Has(person, a) THEN state.counts[a] + 1
                                            ELSE state.counts[a]]],
     person |-> person,
     values |-> <<constraint_score(person, state, ConfigOf(scenario).w_help,
                                   ConfigOf(scenario).w_penalty,
                                   ConfigOf(scenario).w_corr),
                  enhanced_correlation_score(person, state, 3),
                  calculate_expected_value(person, state,
                                           state.N - state.admitted_count)>>]

\* the three scores, with the state and the candidate as the calls leave
\* them: none of the functions assigns to either
Scored(person, state, scenario) ==
    [state |-> state,
     person |-> person,
     values |-> <<constraint_score(person, state, ConfigOf(scenario).w_help,
                                   ConfigOf(scenario).w_penalty,
                                   ConfigOf(scenario).w_corr),
                  enhanced_correlation_score(person, state, 3),
                  calculate_expected_value(person, state,
                                           state.N - state.admitted_count)>>]

(***************************************************************************)
(* decide_enhanced: the decision it returns, and the flag it sets.         *)
(***************************************************************************)
\* the steps of decide_enhanced after the guard
decide_enhanced_unforced(person, state, scenario, rejection_history) ==
    LET config == ConfigOf(scenario)
        pdc == prioritized_deficit_check(person, state)
        R == state.N - state.admitted_count
    IN  IF all_constraints_met(state) THEN TRUE
        ELSE IF pdc[1] /\ RLt(<<1, 2>>, pdc[2]) THEN TRUE
        ELSE IF R <= config.endgame_size
             THEN IF conservative_endgame(person, state)
                  THEN RLt(Zero, calculate_expected_value(person, state, R))
                  ELSE FALSE
        ELSE LET base_score == constraint_score(person, state, config.w_help,
                                                config.w_penalty, config.w_corr)
                 correlation_bonus == enhanced_correlation_score(person, state, 3)
                 total_score == RAdd(base_score, RMul(<<3, 10>>, correlation_bonus))
                 threshold == adaptive_threshold_with_history(
                                  state, config.base_start, rejection_history,
                                  Min(HISTORY_WINDOW, state.total_seen))
             IN  RLe(threshold, total_score)

\* variant: the deficit shortcut is taken before the guard is asked
decide_enhanced_guard_late(person, state, scenario, rejection_history) ==
    LET pdc == prioritized_deficit_check(person, state)
    IN  IF pdc[1] /\ RLt(<<1, 2>>, pdc[2]) THEN TRUE
        ELSE IF ~hard_safety(person, state) THEN FALSE
        ELSE decide_enhanced_unforced(person, state, scenario, rejection_history)

decide_enhanced(person, state, scenario, rejection_history) ==
    IF ~hard_safety(person, state) THEN FALSE
    ELSE decide_enhanced_unforced(person, state, scenario, rejection_history)

(***************************************************************************)
(* The divisors decide_enhanced evaluates on the way to its result, each   *)
(* function's by the branches it takes: integers as they are, floats by    *)
(* their numerator.  A 0 among them is a ZeroDivisionError.                *)
(***************************************************************************)
\* need / R, and 1.0 / (1.0 + lookahead_depth * (1.0 - correlation))
enhanced_correlation_score_divisors(person, state, lookahead_depth) ==
    LET R == state.N - state.admitted_count
        pairs == {p \in TrueAttrs(person) \X DOMAIN state.constraints :
                     /\ p[2] # p[1]
                     /\ RLt(Zero, CorrOf(state, p[1], p[2]))
                     /\ Need(state, p[2]) > 0}
    IN  UNION {{R, RAdd(One, RMul(Int2R(lookahead_depth),
                                  RSub(One, CorrOf(state, p[1], p[2]))))[1]} : p \in pairs}

\* 1.0 / max(1, need), need / R
calculate_expected_value_divisors(person, state) ==
    LET R == state.N - state.admitted_count
        helped == {a \in DOMAIN state.constraints : Has(person, a) /\ Need(state, a) > 0}
        missed == {a \in DOMAIN state.constraints : ~Has(person, a) /\ Need(state, a) > 0}
    IN  {Max(1, Need(state, a)) : a \in helped}
            \cup {R : a \in missed}
            \cup enhanced_correlation_score_divisors(person, state, 3)

\* admitted_count / N, M_a / N, counts / max(1, admitted_count),
\* recent_rejections / window_size
adaptive_threshold_with_history_divisors(state, rejection_history, window_size) ==
    {state.N}
        \cup {Max(1, state.admitted_count) : a \in DOMAIN state.constraints}
        \cup (IF Len(rejection_history) >= window_size THEN {window_size} ELSE {})

\* need / max(0.01, max_possible - need)
prioritized_deficit_check_divisors(person, state) ==
    LET R == state.N - state.admitted_count
    IN  {RMax(<<1, 100>>, RMul(Int2R(R), FreqOf(state, a, One)))[1] :
            a \in {b \in DOMAIN state.constraints : Need(state, b) > 0}}

decide_enhanced_divisors(person, state, scenario, rejection_history) ==
    LET config == ConfigOf(scenario)
        pdc == prioritized_deficit_check(person, state)
        R == state.N - state.admitted_count
    IN  IF ~hard_safety(person, state) THEN {}
        ELSE IF all_constraints_met(state) THEN {}
        ELSE prioritized_deficit_check_divisors(person, state) \cup
             (IF pdc[1] /\ RLt(<<1, 2>>, pdc[2]) THEN {}
              ELSE IF R <= config.endgame_size
                   THEN IF conservative_endgame(person, state)
                        THEN calculate_expected_value_divisors(person, state)
                        ELSE {}
              ELSE {Max(1, R)}
                       \cup enhanced_correlation_score_divisors(person, state, 3)
                       \cup adaptive_threshold_with_history_divisors(
                                state, rejection_history,
                                Min(HISTORY_WINDOW, state.total_seen)))

\* state.accept_all_after_min_met after decide_enhanced(person, state, ...)
accept_all_after_decide(person, state) ==
    IF hard_safety(person, state) /\ all_constraints_met(state) THEN TRUE
    ELSE state.accept_all_after_min_met

decide_dyn(person, state, endgame_size, w_help, w_penalty, w_corr, base_start) ==
    IF ~hard_safety(person, state) THEN FALSE
    ELSE IF deficit_first(person, state) THEN TRUE
    ELSE IF (state.N - state.admitted_count) <= endgame_size
         THEN conservative_endgame(person, state)
    ELSE RLe(dynamic_threshold(state, base_start),
             constraint_score(person, state, w_help, w_penalty, w_corr))

(***************************************************************************)
(* scenario1.py.  The two statistical tests (_safe_wrong_side_accept lines *)
(* 168-207, _safe_accept_neither lines 227-275: a normal-approximation     *)
(* confidence bound over _ACCEPTED_WINDOW and state.freqs) enter decide as *)
(* the values wrong_side_ok and neither_ok, which the caller draws: every  *)
(* outcome they can have is covered.                                       *)
(***************************************************************************)
SPRINT_ADMITTED == 900

SPRINT_SHORT == 20

ACCEPTED_WINDOW_MAXLEN == 100

scenario1_remaining(state) == Max(0, state.N - state.admitted_count)

scenario1_need_map(state) == [a \in DOMAIN state.constraints |-> Need(state, a)]

\* "accept", "reject" or "none": the forced decision, if any
scenario1_must_accept_or_reject_by_feasibility(person, state) ==
    LET R == scenario1_remaining(state)
        need == scenario1_need_map(state)
        must_accept == \E a \in DOMAIN need : (R - 1) < need[a] /\ Has(person, a)
        must_reject == \E a \in DOMAIN need : (R - 1) < need[a] /\ ~Has(person, a)
    IN  IF must_accept THEN "accept"
        ELSE IF must_reject THEN "reject"
        ELSE "none"

scenario1_safe_wrong_side_accept(unmet_attr, state, wrong_side_ok) ==
    LET R == Max(0, state.N - state.admitted_count)
        cur == CountOf(state, unmet_attr)
        M == IF unmet_attr \in DOMAIN state.constraints
             THEN state.constraints[unmet_attr] ELSE 0
    IN  IF R <= 1 THEN FALSE
        ELSE IF Max(0, M - cur) <= 0 THEN TRUE
        ELSE wrong_side_ok

scenario1_safe_accept_neither(state, neither_ok) ==
    LET R == Max(0, state.N - state.admitted_count)
    IN  IF R <= 1 THEN FALSE
        ELSE IF Cardinality(DOMAIN state.constraints) < 2 THEN FALSE
        ELSE neither_ok

scenario1_decide(person, state, wrong_side_ok, neither_ok) ==
    LET need == scenario1_need_map(state)
        forced == scenario1_must_accept_or_reject_by_feasibility(person, state)
        attrs == DOMAIN state.constraints
    IN  IF \A a \in DOMAIN need : need[a] <= 0 THEN TRUE
        ELSE IF forced # "none" THEN forced = "accept"
        ELSE IF Cardinality(attrs) < 2
             THEN LET a == CHOOSE x \in attrs : TRUE
                  IN  Has(person, a) \/ need[a] <= 0
        ELSE LET a1 == CHOOSE x \in attrs : TRUE
                 a2 == CHOOSE x \in attrs : x # a1
                 has1 == Has(person, a1)
                 has2 == Has(person, a2)
                 n1 == need[a1]
                 n2 == need[a2]
                 neither == scenario1_safe_accept_neither(state, neither_ok)
                 sprint == /\ state.admitted_count >= SPRINT_ADMITTED
                           /\ (state.constraints[a1] - CountOf(state, a1)) <= SPRINT_SHORT
                           /\ (state.constraints[a2] - CountOf(state, a2)) <= SPRINT_SHORT
                           /\ (has1 \/ has2)
                 phaseA == IF ~sprint /\ n1 > 0 /\ n2 > 0
                           THEN has1 \/ has2 \/ neither
                           ELSE sprint
                 phaseB2 == IF ~phaseA /\ n1 <= 0 /\ n2 > 0
                            THEN has2 \/ scenario1_safe_wrong_side_accept(a2, state,
                                                                          wrong_side_ok)
                            ELSE phaseA
                 phaseB1 == IF ~phaseB2 /\ n2 <= 0 /\ n1 > 0
                            THEN has1 \/ scenario1_safe_wrong_side_accept(a1, state,
                                                                          wrong_side_ok)
                            ELSE phaseB2
             IN  IF ~phaseB1 THEN has1 \/ has2 \/ neither ELSE TRUE

\* _ACCEPTED_WINDOW after decide: _record_accept on a deque(maxlen=100)
scenario1_record_accept(window, person) ==
    LastN(Append(window, person), ACCEPTED_WINDOW_MAXLEN)

(***************************************************************************)
(* The two statistical tests of scenario1.py as they compute: the estimate *)
(* blended from state.freqs and the accepted window, and the comparison of *)
(* the lower confidence bound mu - z * sqrt(var) with the minimum, made on *)
(* the squares.  window is _ACCEPTED_WINDOW at the call.                   *)
(***************************************************************************)
scenario1_observed_freq(attr, window) ==
    IF window = <<>> THEN Zero
    ELSE Rat(Cardinality({i \in 1..Len(window) : Has(window[i], attr)}), Len(window))

scenario1_adjusted_p(attr, state, window) ==
    LET prior_p == FreqOf(state, attr, <<129, 400>>)
        obs_p == scenario1_observed_freq(attr, window)
        w_obs == RMul(<<3, 10>>, RMin(One, Rat(Len(window), 50)))
        p == RAdd(RMul(RSub(One, w_obs), prior_p), RMul(w_obs, obs_p))
    IN  RMax(<<1, 100>>, RMin(<<99, 100>>, p))

\* z = 0.3 + 0.5 * clamp((N - admitted) / N, 0, 1)
scenario1_z(state) ==
    LET rem_frac == IF state.N > 0
                    THEN RMax(Zero, RMin(One, Rat(state.N - state.admitted_count, state.N)))
                    ELSE Zero
    IN  RAdd(<<3, 10>>, RMul(<<1, 2>>, rem_frac))

\* cur + mu - M, the safety margin of attribute a over the n slots to come
scenario1_margin(a, state, window, n) ==
    LET M == IF a \in DOMAIN state.constraints THEN state.constraints[a] ELSE 0
    IN  RSub(RAdd(Int2R(CountOf(state, a)),
                  RMul(Int2R(n), scenario1_adjusted_p(a, state, window))),
             Int2R(M))

\* (cur + lcb) < M with lcb = mu - z * (var ** 0.5), var = max(1e-6, n*p*(1-p))
scenario1_lcb_short(a, state, window, n) ==
    LET p == scenario1_adjusted_p(a, state, window)
        var == RMax(<<1, 1000000>>, RMul(Int2R(n), RMul(p, RSub(One, p))))
        z == scenario1_z(state)
        margin == scenario1_margin(a, state, window, n)
    IN  \/ ~RLt(Zero, margin)
        \/ RLt(RMul(margin, margin), RMul(RMul(z, z), var))

\* cur >= ceil(M * k / N) + slack, slack = int(10 * (800 - k) / 800) while k < 800
scenario1_on_schedule(a, state) ==
    LET k == state.admitted_count
        N == Max(1, state.N)
        M == IF a \in DOMAIN state.constraints THEN state.constraints[a] ELSE 0
        slack == IF k < 800 THEN (10 * (800 - k)) \div 800 ELSE 0
    IN  CountOf(state, a) >= ((M * k + (N - 1)) \div N) + slack

\* _safe_wrong_side_accept from line 165 on (R > 1 and need > 0)
scenario1_wrong_side_test(unmet_attr, state, window) ==
    LET n == Max(0, state.N - state.admitted_count) - 1
        safety_margin == scenario1_margin(unmet_attr, state, window, n)
    IN  IF scenario1_lcb_short(unmet_attr, state, window, n) THEN FALSE
        ELSE IF ~scenario1_on_schedule(unmet_attr, state) THEN FALSE
        ELSE IF state.admitted_count < 800 /\ RLe(Int2R(20), safety_margin) THEN TRUE
        ELSE RLe(Int2R(40), safety_margin)

\* _safe_accept_neither from line 227 on (R > 1 and two constraints)
scenario1_neither_test(state, window) ==
    LET n == Max(0, state.N - state.admitted_count) - 1
        attrs == DOMAIN state.constraints
        enough(bound) == \A a \in attrs :
                             RLe(Int2R(bound), scenario1_margin(a, state, window, n))
    IN  IF \E a \in attrs : scenario1_lcb_short(a, state, window, n) THEN FALSE
        ELSE IF state.admitted_count < 850 /\ enough(8) THEN TRUE
        ELSE IF \A a \in attrs : scenario1_on_schedule(a, state) THEN TRUE
        ELSE enough(30)

\* decide with the tests computed from the window
scenario1_decide_window(person, state, window) ==
    LET unmet == {a \in DOMAIN state.constraints : Need(state, a) > 0}
        wrong_side_ok == IF Cardinality(unmet) = 1
                         THEN scenario1_wrong_side_test(CHOOSE a \in unmet : TRUE,
                                                        state, window)
                         ELSE FALSE
    IN  scenario1_decide(person, state, wrong_side_ok,
                         scenario1_neither_test(state, window))

(***************************************************************************)
(* scenario2.py.  decide is modelled to line 135; the value rest stands    *)
(* for what lines 137-231 (single-attribute admits, struggling attributes, *)
(* score against the adaptive threshold) return, drawn by the caller.      *)
(***************************************************************************)
A_T == "techno_lover"

A_B == "berlin_local"

ENDGAME_REMAINING == 80

UNION_MARGIN_MIN == 8

\* int(UNION_MARGIN_FRAC * R), UNION_MARGIN_FRAC = 0.10
UnionMarginFrac(R) == R \div 10

scenario2_remaining(state) == Max(0, state.N - state.admitted_count)

scenario2_need(state, a) == IF a \in DOMAIN state.constraints THEN Need(state, a) ELSE 0

scenario2_hard_safety(person, state) ==
    LET R == scenario2_remaining(state)
    IN  \A a \in DOMAIN state.constraints :
            ~(~Has(person, a) /\ (R - 1) < Need(state, a))

scenario2_endgame_feasible(person, state) ==
    LET R == scenario2_remaining(state)
    IN  \A a \in DOMAIN state.constraints :
            LET cur == CountOf(state, a) + (IF Has(person, a) THEN 1 ELSE 0)
                exp_max == RAdd(Int2R(cur), RMul(Int2R(Max(0, R - 1)),
                                                 RMax(Zero, FreqOf(state, a, Zero))))
            IN  ~RLt(exp_max, Int2R(state.constraints[a]))

scenario2_overlap_needed(state, R) ==
    Max(0, scenario2_need(state, A_B) + scenario2_need(state, A_T) - R)

scenario2_decide(person, state, rest) ==
    LET R == scenario2_remaining(state)
        has_B == Has(person, A_B)
        has_T == Has(person, A_T)
        has_W == Has(person, A_W)
        U == (scenario2_need(state, A_B) + scenario2_need(state, A_T)) - R
        union_margin == Max(UNION_MARGIN_MIN, UnionMarginFrac(R))
    IN  IF ~scenario2_hard_safety(person, state) THEN FALSE
        ELSE IF Has(person, A_C) THEN TRUE
        ELSE IF R <= ENDGAME_REMAINING THEN scenario2_endgame_feasible(person, state)
        ELSE IF U >= union_margin THEN has_B /\ has_T
        ELSE IF has_B /\ has_T /\ scenario2_overlap_needed(state, R) > 0 THEN TRUE
        ELSE IF has_W /\ ~has_B /\ ~has_T /\ ~Has(person, A_C) THEN FALSE
        ELSE rest

(***************************************************************************)
(* scenario3.py.  decide is modelled to line 125; the value rest stands    *)
(* for what lines 127-387 (promotion of rare attributes, reservation       *)
(* phases, endgame, scarcity-weighted score) return, drawn by the caller.  *)
(***************************************************************************)
scenario3_remaining(state) == Max(0, state.N - state.admitted_count)

scenario3_all_constraints_met(state) ==
    \A a \in DOMAIN state.constraints : ~(CountOf(state, a) < state.constraints[a])

scenario3_hard_safety(person, state) ==
    LET R == scenario3_remaining(state)
    IN  \A a \in DOMAIN state.constraints :
            ~(~Has(person, a) /\ (R - 1) < Need(state, a))

scenario3_decide(person, state, rest) ==
    IF ~scenario3_hard_safety(person, state) THEN FALSE
    ELSE IF scenario3_all_constraints_met(state) THEN TRUE
    ELSE rest

(***************************************************************************)
(* State of one run of main().  k, rejected_local, rejection_history, res  *)
(* and accept are main's locals; counts and M of main are the same objects *)
(* as state.counts and state.constraints.  An optional value (nextPerson,  *)
(* the checkpoint file) is a sequence of length 0 or 1.  source is the     *)
(* candidate source behind /new-game and /decide-and-next.  policy is the  *)
(* decision function the loop calls: decide_enhanced as in bouncer.py, or  *)
(* decide(person, state, rejection_history) of a scenario module, whose    *)
(* module-level deque is ACCEPTED_WINDOW.                                  *)
(***************************************************************************)
VARIABLES pc, scenario, policy, state, k, rejected_local, rejection_history,
          res, accept, checkpoint, source, outcome, ACCEPTED_WINDOW, invocations

vars == <<pc, scenario, policy, state, k, rejected_local, rejection_history,
          res, accept, checkpoint, source, outcome, ACCEPTED_WINDOW, invocations>>

\* the runs: the decision function, and the --scenario argument
Runs == {<<"decide_enhanced", 1>>, <<"decide_enhanced", 2>>, <<"decide_enhanced", 3>>,
         <<"scenario1", 1>>, <<"scenario2", 2>>, <<"scenario3", 3>>}

\* the attribute maps a candidate can carry
Persons == [Attrs -> BOOLEAN]

\* the games /new-game can answer with: minCount per attribute, and the
\* attributeStatistics (relativeFrequencies, correlations)
MinCounts == {m \in [Attrs -> 0..DEFAULT_N] : m[A_W] <= m[A_C]}

Statistics ==
    { [relativeFrequencies |-> <<>>, correlations |-> <<>>],
      [relativeFrequencies |-> (A_C :> <<1, 1>>) @@ (A_W :> <<3, 4>>),
       correlations |-> (<<A_C, A_W>> :> <<1, 2>>) @@ (<<A_W, A_C>> :> <<-1, 2>>)] }

\* decide of scenario1 and of scenario3 is modelled without its reads of
\* freqs and corr: one statistics answer is drawn for them
StatisticsOf(p) ==
    IF p \in {"scenario1", "scenario3"}
    THEN {[relativeFrequencies |-> <<>>, correlations |-> <<>>]}
    ELSE Statistics

GameState(N, constraints, counts, freqs, corr, admitted_count, rejected, seen_counts, total_seen, accept_all_after_min_met) ==
    [N |-> N, constraints |-> constraints, counts |-> counts, freqs |-> freqs,
     corr |-> corr, admitted_count |-> admitted_count, rejected_local |-> rejected,
     seen_counts |-> seen_counts, total_seen |-> total_seen,
     accept_all_after_min_met |-> accept_all_after_min_met]

NoState == GameState(0, <<>>, <<>>, <<>>, <<>>, 0, 0, <<>>, 0, FALSE)

\* nothing printed yet
NoOutcome == [kind |-> "none", numbers |-> <<>>]

NoResponse == [status |-> "none", nextPerson |-> <<>>, admittedCount |-> 0,
               rejectedCount |-> 0]

\* the source at /new-game: no decision received
NewGame == [admitted |-> 0, rejected |-> 0, decisions |-> <<>>]

Init ==
    /\ pc = "start"
    /\ \E run \in Runs : policy = run[1] /\ scenario = run[2]
    /\ state = NoState
    /\ k = 0
    /\ rejected_local = 0
    /\ rejection_history = <<>>
    /\ res = NoResponse
    /\ accept = FALSE
    /\ checkpoint = <<>>
    /\ source = NewGame
    /\ outcome = NoOutcome
    /\ ACCEPTED_WINDOW = <<>>
    /\ invocations = 1

\* int(math.ceil(buffer_multiplier * math.sqrt(N))) if buffer_multiplier > 0 else 0
Buffer(buffer_multiplier, N) ==
    IF RLt(Zero, buffer_multiplier)
    THEN CHOOSE b \in 0..N :
            /\ b * b * buffer_multiplier[2] * buffer_multiplier[2]
                   >= buffer_multiplier[1] * buffer_multiplier[1] * N
            /\ \A c \in 0..(b - 1) :
                   c * c * buffer_multiplier[2] * buffer_multiplier[2]
                       < buffer_multiplier[1] * buffer_multiplier[1] * N
    ELSE 0

\* variant: the payload keeps the whole rejection_history
Payload_whole_history(st, admitted, rejected, history, response) ==
    [N |-> st.N, constraints |-> st.constraints, counts |-> st.counts,
     freqs |-> st.freqs, corr |-> st.corr, admitted |-> admitted,
     rejected_local |-> rejected, total_seen |-> st.total_seen,
     seen_counts |-> st.seen_counts,
     rejection_history |-> history,
     accept_all_after_min_met |-> st.accept_all_after_min_met,
     nextPerson |-> response.nextPerson,
     admitted_server |-> response.admittedCount,
     rejected_server |-> response.rejectedCount]

\* the payload main hands to _save_checkpoint
Payload(st, admitted, rejected, history, response) ==
    [N |-> st.N, constraints |-> st.constraints, counts |-> st.counts,
     freqs |-> st.freqs, corr |-> st.corr, admitted |-> admitted,
     rejected_local |-> rejected, total_seen |-> st.total_seen,
     seen_counts |-> st.seen_counts,
     rejection_history |-> LastN(history, CHECKPOINT_HISTORY),
     accept_all_after_min_met |-> st.accept_all_after_min_met,
     nextPerson |-> response.nextPerson,
     admitted_server |-> response.admittedCount,
     rejected_server |-> response.rejectedCount]

\* the index of the candidate the source hands out next: the one after the
\* last it received a decision for
NextIndex(src) ==
    IF src.decisions = <<>> THEN 0
    ELSE src.decisions[Len(src.decisions)].personIndex + 1

\* what the source answers to a request: the run goes on with a next
\* candidate, or it is over (completed at capacity, failed otherwise)
Running(src, person) ==
    [status |-> "running",
     nextPerson |-> <<[personIndex |-> NextIndex(src), attributes |-> person]>>,
     admittedCount |-> src.admitted, rejectedCount |-> src.rejected]

Over(src, status) ==
    [status |-> status, nextPerson |-> <<>>,
     admittedCount |-> src.admitted, rejectedCount |-> src.rejected]

\* the contents of a checkpoint file that is not what _save_checkpoint
\* wrote: text that is no JSON, the JSON object {}, JSON of another shape
\* (a non-empty list), an object whose numeric fields hold other text
Damaged == {[corrupt |-> c] : c \in {"not_json", "empty_object", "wrong_shape",
                                     "non_numeric"}}

\* _load_checkpoint: the parsed file, None (<<>>) when the file is missing
\* or json.load raises
load_checkpoint(file) ==
    IF file = <<>> THEN <<>>
    ELSE IF "corrupt" \in DOMAIN file[1] /\ file[1].corrupt = "not_json" THEN <<>>
    ELSE file

\* `if resume_payload:` None and the empty object are false
Truthy(payload) ==
    /\ payload # <<>>
    /\ ~("corrupt" \in DOMAIN payload[1] /\ payload[1].corrupt = "empty_object")

\* the reads of the resume branch succeed: .get exists and int() and
\* float() accept the fields
Convertible(payload) == "corrupt" \notin DOMAIN payload[1]

\* main, no checkpoint to resume: /new-game, the GameState, the first
\* request (no decision), the initial checkpoint; the source's first
\* candidate carries one of the attribute maps firsts
StartWith(firsts) ==
    /\ pc = "start"
    /\ ~Truthy(load_checkpoint(checkpoint))
    /\ \E minCount \in MinCounts, stats \in StatisticsOf(policy), first \in firsts :
        LET config == ConfigOf(scenario)
            N == DEFAULT_N
            buff == Buffer(config.buffer_multiplier, N)
            M == [a \in DOMAIN minCount |-> Min(N, minCount[a] + buff)]
            counts == [a \in DOMAIN M |-> 0]
            rel_freqs == stats.relativeFrequencies
            freq_keys == DOMAIN rel_freqs \cup DOMAIN M
            seeded_freqs == [a \in freq_keys |->
                               IF a \in DOMAIN rel_freqs THEN rel_freqs[a] ELSE <<1, 5>>]
            st == GameState(N, M, counts, seeded_freqs, stats.correlations, 0, 0,
                            [a \in freq_keys |-> 0], 0, FALSE)
            response == Running(NewGame, first)
        IN  /\ source' = NewGame
            /\ state' = st
            /\ k' = 0
            /\ rejected_local' = 0
            /\ res' = response
            /\ rejection_history' = <<>>
            /\ checkpoint' = <<Payload(st, 0, 0, <<>>, response)>>
    /\ pc' = "loop"
    /\ UNCHANGED <<scenario, policy, accept, outcome, ACCEPTED_WINDOW, invocations>>

StartGame == StartWith(Persons)

\* variant: the resume branch adds the safety buffer to the constraints of
\* the payload
Resume_buffered ==
    /\ pc = "start"
    /\ Truthy(load_checkpoint(checkpoint))
    /\ Convertible(load_checkpoint(checkpoint))
    /\ LET resume_payload == load_checkpoint(checkpoint)[1]
           M == [a \in DOMAIN resume_payload.constraints |->
                    Min(resume_payload.N,
                        resume_payload.constraints[a]
                            + Buffer(ConfigOf(scenario).buffer_multiplier, resume_payload.N))]
       IN  /\ state' = GameState(resume_payload.N, M,
                                 resume_payload.counts, resume_payload.freqs,
                                 resume_payload.corr, resume_payload.admitted,
                                 resume_payload.rejected_local,
                                 resume_payload.seen_counts, resume_payload.total_seen,
                                 resume_payload.accept_all_after_min_met)
           /\ k' = resume_payload.admitted
           /\ rejected_local' = resume_payload.rejected_local
           /\ res' = [status |-> "running",
                      nextPerson |-> resume_payload.nextPerson,
                      admittedCount |-> resume_payload.admitted_server,
                      rejectedCount |-> resume_payload.rejected_server]
           /\ rejection_history' = resume_payload.rejection_history
    /\ pc' = "loop"
    /\ UNCHANGED <<scenario, policy, accept, checkpoint, source, outcome,
                   ACCEPTED_WINDOW, invocations>>

\* main, a checkpoint to resume from: the GameState and the tallies are
\* those of the payload, and a response is synthesized with its nextPerson
Resume ==
    /\ pc = "start"
    /\ Truthy(load_checkpoint(checkpoint))
    /\ Convertible(load_checkpoint(checkpoint))
    /\ LET resume_payload == load_checkpoint(checkpoint)[1]
       IN  /\ state' = GameState(resume_payload.N, resume_payload.constraints,
                                 resume_payload.counts, resume_payload.freqs,
                                 resume_payload.corr, resume_payload.admitted,
                                 resume_payload.rejected_local,
                                 resume_payload.seen_counts, resume_payload.total_seen,
                                 resume_payload.accept_all_after_min_met)
           /\ k' = resume_payload.admitted
           /\ rejected_local' = resume_payload.rejected_local
           /\ res' = [status |-> "running",
                      nextPerson |-> resume_payload.nextPerson,
                      admittedCount |-> resume_payload.admitted_server,
                      rejectedCount |-> resume_payload.rejected_server]
           /\ rejection_history' = resume_payload.rejection_history
    /\ pc' = "loop"
    /\ UNCHANGED <<scenario, policy, accept, checkpoint, source, outcome,
                   ACCEPTED_WINDOW, invocations>>

\* main, a checkpoint the resume branch cannot read: the exception of .get,
\* int() or float() is not caught and main ends with it
ResumeRaises ==
    /\ pc = "start"
    /\ Truthy(load_checkpoint(checkpoint))
    /\ ~Convertible(load_checkpoint(checkpoint))
    /\ outcome' = [kind |-> "error", numbers |-> <<>>]
    /\ pc' = "done"
    /\ UNCHANGED <<scenario, policy, state, k, rejected_local, rejection_history,
                   res, accept, checkpoint, source, ACCEPTED_WINDOW, invocations>>

\* variant: the frequencies are refreshed before the candidate is counted
Observed_refresh_first(st, admitted, rejected, attrs) ==
    LET seen == [st EXCEPT !.admitted_count = admitted,
                           !.rejected_local = rejected,
                           !.total_seen = st.total_seen + 1,
                           !.seen_counts = [a \in DOMAIN st.seen_counts \cup
                                                  {b \in DOMAIN st.freqs : Has(attrs, b)} |->
                                IF a \in DOMAIN st.freqs /\ Has(attrs, a)
                                THEN SeenOf(st, a) + 1 ELSE SeenOf(st, a)]]
    IN  [seen EXCEPT !.freqs = update_adaptive_freqs(st, DEFAULT_K0)]

\* state once the candidate is observed and the frequencies are refreshed
Observed(st, admitted, rejected, attrs) ==
    LET seen == [st EXCEPT !.admitted_count = admitted,
                           !.rejected_local = rejected,
                           !.total_seen = st.total_seen + 1,
                           !.seen_counts = [a \in DOMAIN st.seen_counts \cup
                                                  {b \in DOMAIN st.freqs : Has(attrs, b)} |->
                                IF a \in DOMAIN st.freqs /\ Has(attrs, a)
                                THEN SeenOf(st, a) + 1 ELSE SeenOf(st, a)]]
    IN  [seen EXCEPT !.freqs = update_adaptive_freqs(seen, DEFAULT_K0)]

\* the decision of the run's decision function; drawn1 and drawn2 are the
\* values a scenario module's decide takes for its statistical tests
Decision(run, person, st, history, drawn1, drawn2) ==
    CASE run[1] = "decide_enhanced" -> decide_enhanced(person, st, run[2], history)
      [] run[1] = "scenario1" -> scenario1_decide(person, st, drawn1, drawn2)
      [] run[1] = "scenario2" -> scenario2_decide(person, st, drawn1)
      [] run[1] = "scenario3" -> scenario3_decide(person, st, drawn1)

\* outcomes drawn for the statistical tests of the scenario modules: two
\* tests in scenario1.decide, the tail of decide in scenario2 and scenario3,
\* none in decide_enhanced
DrawsOf(p) ==
    CASE p = "decide_enhanced" -> {<<FALSE, FALSE>>}
      [] p = "scenario1" -> BOOLEAN \X BOOLEAN
      [] OTHER -> {<<FALSE, FALSE>>, <<TRUE, TRUE>>}

\* the loop body through decide_and_next: observe the candidate, refresh the
\* frequencies, decide, report the decision; the source records it and
\* answers
DecideAndReport ==
    /\ pc = "loop"
    /\ res.status = "running"
    /\ res.nextPerson # <<>>
    /\ \E drawn \in DrawsOf(policy) :
        \E seen \in {Observed(state, k, rejected_local, res.nextPerson[1].attributes)} :
        \E decision \in {Decision(<<policy, scenario>>, res.nextPerson[1].attributes,
                                   seen, rejection_history, drawn[1], drawn[2])} :
        LET person == res.nextPerson[1]
            attrs == person.attributes
            src == [admitted |-> source.admitted + (IF decision THEN 1 ELSE 0),
                    rejected |-> source.rejected + (IF decision THEN 0 ELSE 1),
                    decisions |-> Append(source.decisions,
                                         [personIndex |-> person.personIndex,
                                          attributes |-> attrs,
                                          accept |-> decision])]
        IN  /\ accept' = decision
            /\ state' = IF policy = "decide_enhanced"
                        THEN [seen EXCEPT !.accept_all_after_min_met =
                                              accept_all_after_decide(attrs, seen)]
                        ELSE seen
            /\ ACCEPTED_WINDOW' = IF policy = "scenario1" /\ decision
                                  THEN scenario1_record_accept(ACCEPTED_WINDOW, attrs)
                                  ELSE ACCEPTED_WINDOW
            /\ source' = src
            /\ IF src.admitted >= DEFAULT_N
               THEN res' = Over(src, "completed")
               ELSE IF Len(src.decisions) >= MaxSeen
                    THEN res' = Over(src, "failed")
                    ELSE \E next \in Persons : res' = Running(src, next)
    /\ pc' = "reported"
    /\ UNCHANGED <<scenario, policy, k, rejected_local, rejection_history,
                   checkpoint, outcome, invocations>>

\* variant: a rejected candidate is tallied into counts as well
Tallied_rejected_counted(acc, attrs, admitted, rejected, history, counts) ==
    [k |-> IF acc THEN admitted + 1 ELSE admitted,
     counts |-> [a \in DOMAIN counts |->
                    IF Has(attrs, a) THEN counts[a] + 1 ELSE counts[a]],
     rejected_local |-> IF acc THEN rejected ELSE rejected + 1,
     rejection_history |-> Append(history, IF acc THEN 0 ELSE 1)]

\* variant: an accepted candidate is tallied into every attribute's count
Tallied_every_attribute(acc, attrs, admitted, rejected, history, counts) ==
    [k |-> IF acc THEN admitted + 1 ELSE admitted,
     counts |-> IF acc THEN [a \in DOMAIN counts |-> counts[a] + 1] ELSE counts,
     rejected_local |-> IF acc THEN rejected ELSE rejected + 1,
     rejection_history |-> Append(history, IF acc THEN 0 ELSE 1)]

\* the local tallies after a decision on a candidate with attributes attrs:
\* k, counts (the dictionary state.counts refers to), rejected_local and
\* rejection_history
Tallied(acc, attrs, admitted, rejected, history, counts) ==
    [k |-> IF acc THEN admitted + 1 ELSE admitted,
     counts |-> IF acc
                THEN [a \in DOMAIN counts |->
                         IF Has(attrs, a) THEN counts[a] + 1 ELSE counts[a]]
                ELSE counts,
     rejected_local |-> IF acc THEN rejected ELSE rejected + 1,
     rejection_history |-> Append(history, IF acc THEN 0 ELSE 1)]

\* the rest of the loop body: the tallies after the decision, and the
\* checkpoint
Account ==
    /\ pc = "reported"
    /\ LET attrs == source.decisions[Len(source.decisions)].attributes
           t == Tallied(accept, attrs, k, rejected_local, rejection_history,
                        state.counts)
           st == [state EXCEPT !.counts = t.counts]
       IN  /\ k' = t.k
           /\ rejected_local' = t.rejected_local
           /\ rejection_history' = t.rejection_history
           /\ state' = st
           /\ checkpoint' = <<Payload(st, t.k, t.rejected_local, t.rejection_history,
                                      res)>>
    /\ pc' = "loop"
    /\ UNCHANGED <<scenario, policy, res, accept, source, outcome, ACCEPTED_WINDOW,
                   invocations>>

\* variant: the checkpoint is removed on failed as well
Outcome_failed_removes(response, admitted, rejected, file) ==
    IF response.status = "completed"
    THEN [kind |-> "completed", numbers |-> <<response.rejectedCount>>, file |-> <<>>]
    ELSE IF response.status = "failed"
    THEN [kind |-> "failed", numbers |-> <<>>, file |-> <<>>]
    ELSE [kind |-> "stopped", numbers |-> <<admitted, rejected>>, file |-> file]

\* what main prints after the loop (the line, and the counts in it), and the
\* checkpoint file it leaves
Outcome(response, admitted, rejected, file) ==
    IF response.status = "completed"
    THEN [kind |-> "completed", numbers |-> <<response.rejectedCount>>, file |-> <<>>]
    ELSE IF response.status = "failed"
    THEN [kind |-> "failed", numbers |-> <<>>, file |-> file]
    ELSE [kind |-> "stopped", numbers |-> <<admitted, rejected>>, file |-> file]

\* the loop is left: one of the three outcomes is printed
Finish ==
    /\ pc = "loop"
    /\ ~(res.status = "running" /\ res.nextPerson # <<>>)
    /\ \E o \in {Outcome(res, k, rejected_local, checkpoint)} :
           /\ outcome' = [kind |-> o.kind, numbers |-> o.numbers]
           /\ checkpoint' = o.file
    /\ pc' = "done"
    /\ UNCHANGED <<scenario, policy, state, k, rejected_local, rejection_history,
                   res, accept, source, ACCEPTED_WINDOW, invocations>>

(***************************************************************************)
(* decide_enhanced called on its own: a state and a candidate are drawn,   *)
(* admitted_count anywhere in 0..N, and the function is applied once.      *)
(***************************************************************************)
\* the states drawn: the tallies are those of admitted_count accepted
\* candidates, and every need fits the remaining capacity
CallStates ==
    {GameState(DEFAULT_N, M, counts,
               [a \in Attrs |-> IF a \in DOMAIN stats.relativeFrequencies
                                THEN stats.relativeFrequencies[a] ELSE <<1, 5>>],
               stats.correlations, admitted, 0, [a \in Attrs |-> 0], admitted + 1,
               FALSE) :
        M \in MinCounts, counts \in [Attrs -> 0..DEFAULT_N],
        stats \in Statistics, admitted \in 0..DEFAULT_N}

CallFits(st) ==
    \A a \in Attrs :
        /\ st.counts[a] <= st.admitted_count
        /\ Max(0, st.constraints[a] - st.counts[a]) <= st.N - st.admitted_count

InitDecide ==
    /\ pc = "call"
    /\ policy = "decide_enhanced"
    /\ scenario \in {1, 2, 3}
    /\ state \in {st \in CallStates : CallFits(st)}
    /\ k = state.admitted_count
    /\ rejected_local = 0
    /\ rejection_history = <<>>
    /\ source = NewGame
    /\ \E person \in Persons : res = Running(source, person)
    /\ accept = FALSE
    /\ checkpoint = <<>>
    /\ outcome = NoOutcome
    /\ ACCEPTED_WINDOW = <<>>
    /\ invocations = 1

CallDecide ==
    /\ pc = "call"
    /\ accept' = decide_enhanced(res.nextPerson[1].attributes, state, scenario,
                                 rejection_history)
    /\ state' = [state EXCEPT !.accept_all_after_min_met =
                     accept_all_after_decide(res.nextPerson[1].attributes, state)]
    /\ pc' = "returned"
    /\ UNCHANGED <<scenario, policy, k, rejected_local, rejection_history, res,
                   checkpoint, source, outcome, ACCEPTED_WINDOW, invocations>>

NextDecide == CallDecide

(***************************************************************************)
(* The estimator on its own: a GameState seeded with a prior per           *)
(* attribute, then candidates are observed and update_adaptive_freqs is    *)
(* called after each, as in the loop.                                      *)
(***************************************************************************)
\* the priors: relativeFrequencies of the source, float(v) unchanged
Priors == {<<0, 1>>, <<1, 5>>, <<1, 1>>, <<3, 2>>}

\* the k0 the estimator is called with: main passes DEFAULT_K0
K0s == {1, DEFAULT_K0}

InitFreqs ==
    /\ pc = "observe"
    /\ policy = "decide_enhanced"
    /\ scenario = 1
    /\ \E prior \in [Attrs -> Priors] :
           state = GameState(DEFAULT_N, [a \in Attrs |-> 0], [a \in Attrs |-> 0], prior,
                             <<>>, 0, 0, [a \in Attrs |-> 0], 0, FALSE)
    /\ k = 0
    /\ rejected_local = 0
    /\ rejection_history = <<>>
    /\ res = NoResponse
    /\ accept = FALSE
    /\ checkpoint = <<Payload(state, 0, 0, <<>>, NoResponse)>>
    /\ source = NewGame
    /\ outcome = NoOutcome
    /\ ACCEPTED_WINDOW = <<>>
    /\ invocations = 1

\* one candidate observed (total_seen, seen_counts), then the refresh
ObserveRefresh ==
    /\ pc = "observe"
    /\ state.total_seen < MaxSeen
    /\ \E attrs \in Persons, k0 \in K0s :
        LET seen == [state EXCEPT !.total_seen = state.total_seen + 1,
                                  !.seen_counts = [a \in DOMAIN state.seen_counts |->
                                       IF Has(attrs, a) THEN SeenOf(state, a) + 1
                                       ELSE SeenOf(state, a)]]
        IN  state' = [seen EXCEPT !.freqs = update_adaptive_freqs(seen, k0)]
    /\ UNCHANGED <<pc, scenario, policy, k, rejected_local, rejection_history, res,
                   accept, checkpoint, source, outcome, ACCEPTED_WINDOW, invocations>>

NextFreqs == ObserveRefresh

SpecFreqs == InitFreqs /\ [][NextFreqs]_vars

(***************************************************************************)
(* The scoring functions on their own: constraint_score,                   *)
(* enhanced_correlation_score and calculate_expected_value are called      *)
(* twice on the state and candidate drawn for decide_enhanced.             *)
(***************************************************************************)
CallScores ==
    /\ pc \in {"call", "called"}
    /\ \E r \in {Scored(res.nextPerson[1].attributes, state, scenario)} :
           /\ state' = r.state
           /\ res' = [res EXCEPT !.nextPerson[1].attributes = r.person]
           /\ outcome' = [outcome EXCEPT !.numbers = Append(@, r.values)]
    /\ pc' = IF pc = "call" THEN "called" ELSE "returned"
    /\ UNCHANGED <<scenario, policy, k, rejected_local, rejection_history, accept,
                   checkpoint, source, ACCEPTED_WINDOW, invocations>>

NextScores == CallScores

SpecScores == InitDecide /\ [][NextScores]_vars

(***************************************************************************)
(* The two feasibility checks on their own: conservative_endgame and       *)
(* hard_safety are called on the state and candidate drawn for             *)
(* decide_enhanced.                                                        *)
(***************************************************************************)
CallGuards ==
    /\ pc = "call"
    /\ outcome' = [kind |-> "guards", numbers |-> <<>>,
                   conservative_endgame |->
                       conservative_endgame(res.nextPerson[1].attributes, state),
                   hard_safety |-> hard_safety(res.nextPerson[1].attributes, state)]
    /\ pc' = "returned"
    /\ UNCHANGED <<scenario, policy, state, k, rejected_local, rejection_history, res,
                   accept, checkpoint, source, ACCEPTED_WINDOW, invocations>>

NextGuards == CallGuards

SpecGuards == InitDecide /\ [][NextGuards]_vars

(***************************************************************************)
(* One refresh on its own: update_adaptive_freqs is called with main's k0  *)
(* on a state late or early in a run (total_seen up to twice N = 1000 of   *)
(* the source); the estimates before the call are kept.                    *)
(***************************************************************************)
\* the numbers of candidates seen so far
TotalsSeen == {1, 2, 111, 112, 1000, 1001, 2000}

InitRefresh ==
    /\ pc = "call"
    /\ policy = "decide_enhanced"
    /\ scenario = 1
    /\ \E prior \in [Attrs -> {<<0, 1>>, <<1, 5>>, <<1, 1>>}], total \in TotalsSeen :
       \E seen \in [Attrs -> {0, 1, total}] :
           state = GameState(DEFAULT_N, [a \in Attrs |-> 0], [a \in Attrs |-> 0], prior,
                             <<>>, 0, 0, seen, total, FALSE)
    /\ k = 0
    /\ rejected_local = 0
    /\ rejection_history = <<>>
    /\ res = NoResponse
    /\ accept = FALSE
    /\ checkpoint = <<>>
    /\ source = NewGame
    /\ outcome = NoOutcome
    /\ ACCEPTED_WINDOW = <<>>
    /\ invocations = 1

CallRefresh ==
    /\ pc = "call"
    /\ state' = [state EXCEPT !.freqs = update_adaptive_freqs(state, DEFAULT_K0)]
    /\ outcome' = [kind |-> "refreshed", numbers |-> <<>>, before |-> state.freqs]
    /\ pc' = "returned"
    /\ UNCHANGED <<scenario, policy, k, rejected_local, rejection_history, res, accept,
                   checkpoint, source, ACCEPTED_WINDOW, invocations>>

SpecRefresh == InitRefresh /\ [][CallRefresh]_vars

(***************************************************************************)
(* The thresholds on their own: dynamic_threshold and                      *)
(* adaptive_threshold_with_history are called on a state, a candidate is   *)
(* admitted, and they are called again; base_start and the rejection       *)
(* history are those of the first call.                                    *)
(***************************************************************************)
\* the pressure term of both thresholds
MaxPressure(st) ==
    RMaxOver([a \in DOMAIN st.constraints |->
                 RSub(Rat(st.constraints[a], st.N),
                      Rat(CountOf(st, a), Max(1, st.admitted_count)))],
             DOMAIN st.constraints, Zero)

\* rejection histories of every recent rate over the window, and the empty one
Histories ==
    {<<>>} \cup {[i \in 1..ThresholdWindow |-> IF i <= ones THEN 1 ELSE 0] :
                    ones \in 0..ThresholdWindow}

InitThreshold ==
    /\ pc = "call"
    /\ policy = "decide_enhanced"
    /\ scenario \in {1, 2, 3}
    /\ \E M \in MinCounts :
           state = GameState(DEFAULT_N, M, [a \in Attrs |-> 0],
                             [a \in Attrs |-> <<1, 5>>], <<>>, 0, 0,
                             [a \in Attrs |-> 0], 0, FALSE)
    /\ k = 0
    /\ rejected_local = 0
    /\ rejection_history \in Histories
    /\ res = NoResponse
    /\ accept = FALSE
    /\ checkpoint = <<>>
    /\ source = NewGame
    /\ outcome = [kind |-> "none", numbers |-> <<>>, calls |-> <<>>]
    /\ ACCEPTED_WINDOW = <<>>
    /\ invocations = 1

\* both thresholds are called on the state; the values returned are kept
CallThreshold ==
    /\ pc = "call"
    /\ outcome' = [outcome EXCEPT !.calls = Append(@,
                      [admitted_count |-> state.admitted_count,
                       pressure |-> MaxPressure(state),
                       dynamic |-> dynamic_threshold(state, ConfigOf(scenario).base_start),
                       adaptive |-> adaptive_threshold_with_history(
                                        state, ConfigOf(scenario).base_start,
                                        rejection_history, ThresholdWindow)])]
    /\ pc' = "returned"
    /\ UNCHANGED <<scenario, policy, state, k, rejected_local, rejection_history, res,
                   accept, checkpoint, source, ACCEPTED_WINDOW, invocations>>

\* a candidate is admitted: admitted_count and counts as main tallies them
Admit ==
    /\ pc = "returned"
    /\ state.admitted_count < state.N
    /\ \E attrs \in Persons :
        LET t == Tallied(TRUE, attrs, k, rejected_local, <<>>, state.counts)
        IN  /\ k' = t.k
            /\ state' = [state EXCEPT !.admitted_count = t.k, !.counts = t.counts]
    /\ pc' = "call"
    /\ UNCHANGED <<scenario, policy, rejected_local, rejection_history, res, accept,
                   checkpoint, source, outcome, ACCEPTED_WINDOW, invocations>>

NextThreshold == CallThreshold \/ Admit

SpecThreshold == InitThreshold /\ [][NextThreshold]_vars

(***************************************************************************)
(* Runs whose first candidate carries an attribute map that omits keys.    *)
(***************************************************************************)
\* the attribute maps that omit a key
PartialPersons == UNION {[S -> BOOLEAN] : S \in SUBSET Attrs} \ Persons

StartMissing == StartWith(PartialPersons)

NextMissing == StartMissing \/ DecideAndReport \/ Account \/ Finish

SpecMissing == Init /\ [][NextMissing]_vars

(***************************************************************************)
(* Runs that are interrupted and run again: the process stops anywhere in  *)
(* the loop or after main returned, leaving a checkpoint file; its         *)
(* variables are gone, the file and the source stay; between two runs the  *)
(* file can be damaged.                                                    *)
(***************************************************************************)
Stop ==
    /\ pc \in {"loop", "reported", "done"}
    /\ checkpoint # <<>>
    /\ invocations < MaxInvocations
    /\ invocations' = invocations + 1
    /\ pc' = "start"
    /\ state' = NoState
    /\ k' = 0
    /\ rejected_local' = 0
    /\ rejection_history' = <<>>
    /\ res' = NoResponse
    /\ accept' = FALSE
    /\ outcome' = NoOutcome
    /\ ACCEPTED_WINDOW' = <<>>
    /\ UNCHANGED <<scenario, policy, checkpoint, source>>

Damage ==
    /\ pc = "start"
    /\ checkpoint # <<>>
    /\ checkpoint[1] \notin Damaged
    /\ \E file \in Damaged : checkpoint' = <<file>>
    /\ UNCHANGED <<pc, scenario, policy, state, k, rejected_local,
                   rejection_history, res, accept, source, outcome,
                   ACCEPTED_WINDOW, invocations>>

InitResume == Init /\ policy = "decide_enhanced" /\ scenario = 2

NextResume == StartGame \/ Resume \/ DecideAndReport \/ Account \/ Finish \/ Stop

SpecResume == InitResume /\ [][NextResume]_vars

NextDamage == NextResume \/ Damage \/ ResumeRaises

SpecDamage == InitResume /\ [][NextDamage]_vars

SpecDecide == InitDecide /\ [][NextDecide]_vars

Next == StartGame \/ DecideAndReport \/ Account \/ Finish

Spec == Init /\ [][Next]_vars

(***************************************************************************)
(* Properties of the run.  At pc = "reported" the decision accept has been *)
(* made for Candidate in state (the state as observed, before the          *)
(* tallies).                                                               *)
(***************************************************************************)
Candidate == source.decisions[Len(source.decisions)].attributes

Enhanced == policy = "decide_enhanced"

Constrained == DOMAIN state.constraints

\* the need and the remaining capacity the decision was made with
NeedOf(a) == Max(0, state.constraints[a] - state.counts[a])

RemainingAtDecision == state.N - state.admitted_count

\* C1: in a run of decide_enhanced, every state with admitted < N has
\* max(0, M[a] - counts[a]) <= N - admitted for every constrained attribute
FeasibilityInvariant ==
    (Enhanced /\ pc # "start" /\ k < state.N)
        => \A a \in Constrained : NeedOf(a) <= state.N - k

\* a candidate has been rejected, one admitted, and some attribute still
\* needs every remaining slot
FeasibilityTight ==
    /\ Enhanced /\ pc = "loop"
    /\ rejected_local >= 1 /\ k >= 1 /\ k < state.N
    /\ \E a \in Constrained : NeedOf(a) = state.N - k

\* C2: in a run of decide_enhanced, whenever the admitted count equals N
\* every minimum is met
VenueFullMeetsMinimums ==
    (Enhanced /\ pc # "start" /\ k = state.N)
        => \A a \in Constrained : state.counts[a] >= state.constraints[a]

\* the venue filled after a rejection, with a minimum that asked for every
\* slot
VenueFullAfterRejection ==
    /\ Enhanced /\ pc = "done" /\ outcome.kind = "completed"
    /\ k = state.N /\ rejected_local >= 1
    /\ \E a \in Constrained : state.constraints[a] = state.N

\* every minimum was met when the decision was made
AllMet == \A a \in Constrained : state.counts[a] >= state.constraints[a]

AcceptAllPolicies == {"decide_enhanced", "scenario1", "scenario3"}

\* C3: in decide_enhanced, scenario1.decide and scenario3.decide, a
\* candidate that arrives when every minimum is met and a slot remains is
\* accepted; and once every minimum is met it stays met for the rest of the
\* run
AcceptAllOnceSatisfied ==
    /\ []((pc = "reported" /\ policy \in AcceptAllPolicies /\ AllMet
              /\ state.admitted_count < state.N) => accept)
    /\ [][(pc # "start" /\ policy \in AcceptAllPolicies /\ AllMet) => AllMet']_vars

\* after a rejection, with a positive minimum met, a candidate without any
\* attribute is accepted
AcceptAllTaken ==
    /\ pc = "reported" /\ Enhanced /\ AllMet /\ accept
    /\ state.admitted_count < state.N /\ rejected_local >= 1
    /\ \E a \in Constrained : state.constraints[a] > 0
    /\ \A a \in DOMAIN Candidate : ~Candidate[a]

\* the guard's two signals for the candidate
MustAccept ==
    \E a \in Constrained : Has(Candidate, a) /\ (RemainingAtDecision - 1) < NeedOf(a)

MustReject ==
    \E b \in Constrained : ~Has(Candidate, b) /\ (RemainingAtDecision - 1) < NeedOf(b)

\* C4: a candidate that signals must-accept for one attribute and
\* must-reject for another is accepted by decide_enhanced
MustAcceptDominance ==
    (pc = "reported" /\ Enhanced /\ MustAccept /\ MustReject) => accept

\* C4, as the code has it: such a candidate is rejected by decide_enhanced
MustRejectDominance ==
    (pc = "reported" /\ Enhanced /\ MustAccept /\ MustReject) => ~accept

\* a candidate with both signals has been decided
BothSignals ==
    /\ pc = "reported" /\ Enhanced /\ MustAccept /\ MustReject
    /\ ~accept /\ state.admitted_count < state.N

GuardPolicies == {"decide_enhanced", "scenario2", "scenario3"}

\* C5: in decide_enhanced, scenario2.decide and scenario3.decide, a
\* candidate that signals must-reject and no must-accept is rejected,
\* whatever the later steps would decide
GuardPrecedence ==
    (pc = "reported" /\ policy \in GuardPolicies /\ MustReject /\ ~MustAccept)
        => ~accept

\* the guard rejected a candidate that carries a needed attribute
GuardBeforeDeficit ==
    /\ pc = "reported" /\ Enhanced /\ MustReject /\ ~MustAccept /\ ~accept
    /\ \E a \in Constrained : Has(Candidate, a) /\ NeedOf(a) > 0

\* need / max(0.01, R * freq) of a needed attribute, as the deficit step
\* computes it
Criticality(a) ==
    RDiv(Int2R(NeedOf(a)),
         RMax(<<1, 100>>, RMul(Int2R(RemainingAtDecision), FreqOf(state, a, One))))

\* the attributes the candidate carries that are still needed
Helped == {a \in Constrained : Has(Candidate, a) /\ NeedOf(a) > 0}

\* C6: in decide_enhanced, when the guard forces nothing and not every
\* minimum is met, a candidate that carries an attribute with need > 0 is
\* accepted
DeficitFirst ==
    (pc = "reported" /\ Enhanced /\ ~MustReject /\ ~MustAccept /\ ~AllMet
        /\ Helped # {}) => accept

\* C6, as the code has it: such a candidate is accepted when one of the
\* needed attributes it carries has need / max(0.01, R * freq) > 0.5
DeficitFirstCritical ==
    (pc = "reported" /\ Enhanced /\ ~MustReject /\ ~AllMet
        /\ \E a \in Helped : RLt(<<1, 2>>, Criticality(a))) => accept

\* the shortcut accepted a candidate that lacks another needed attribute,
\* after a rejection
DeficitShortcutTaken ==
    /\ pc = "reported" /\ Enhanced /\ ~MustReject /\ ~MustAccept /\ ~AllMet /\ accept
    /\ \E a \in Helped : RLt(<<1, 2>>, Criticality(a))
    /\ \E b \in Constrained : ~Has(Candidate, b) /\ NeedOf(b) > 0
    /\ rejected_local >= 1

\* the decision reached the endgame step: no earlier step returned and
\* R <= endgame_size
EndgameReached ==
    /\ pc = "reported" /\ Enhanced /\ ~MustReject /\ ~AllMet
    /\ ~\E a \in Helped : RLt(<<1, 2>>, Criticality(a))
    /\ RemainingAtDecision <= ConfigOf(scenario).endgame_size

\* some attribute has counts[a] + has(a) + (R - 1) * freq[a] < M[a]
ProjectionShort ==
    \E a \in Constrained :
        RLt(RAdd(Int2R(state.counts[a] + (IF Has(Candidate, a) THEN 1 ELSE 0)),
                 RMul(Int2R(RemainingAtDecision - 1), FreqOf(state, a, Zero))),
            Int2R(state.constraints[a]))

\* C7: in decide_enhanced, a decision that reaches the endgame step is
\* Reject when the projection falls short for some attribute, and otherwise
\* Accept exactly when calculate_expected_value > 0
EndgameStep ==
    EndgameReached =>
        (accept <=> (~ProjectionShort
                       /\ RLt(Zero, calculate_expected_value(Candidate, state,
                                                             RemainingAtDecision))))

\* the score of the candidate and the threshold, as the last step computes
\* them
ScoreBelowThreshold ==
    LET config == ConfigOf(scenario)
        total_score == RAdd(constraint_score(Candidate, state, config.w_help,
                                             config.w_penalty, config.w_corr),
                            RMul(<<3, 10>>, enhanced_correlation_score(Candidate, state, 3)))
        threshold == adaptive_threshold_with_history(
                         state, config.base_start, rejection_history,
                         Min(HISTORY_WINDOW, state.total_seen))
    IN  RLt(total_score, threshold)

\* the endgame step accepted a candidate whose score is below the threshold
EndgameAcceptsBelowThreshold ==
    EndgameReached /\ accept /\ ~ProjectionShort /\ ScoreBelowThreshold

\* C8: the tallies after a decision: an accept adds exactly 1 to the
\* admitted count and leaves the rejected count; a reject adds exactly 1 to
\* the rejected count and leaves the admitted count and every counts[a]
AccountingStep ==
    [][(pc = "reported" /\ pc' = "loop") =>
          IF accept
          THEN k' = k + 1 /\ rejected_local' = rejected_local
          ELSE /\ rejected_local' = rejected_local + 1
               /\ k' = k
               /\ state'.counts = state.counts]_vars

\* an accepted and a rejected candidate have been tallied, the rejected
\* one carrying a constrained attribute
AcceptAndRejectTallied ==
    /\ pc = "loop" /\ k >= 1 /\ rejected_local >= 1
    /\ \E i \in 1..Len(source.decisions) :
           /\ ~source.decisions[i].accept
           /\ \E a \in Constrained : Has(source.decisions[i].attributes, a)

\* C9: the admitted count stays within 0..N, and decide_enhanced does not
\* accept a candidate presented when admitted_count equals N
CapacityBound ==
    /\ 0 <= state.admitted_count /\ state.admitted_count <= state.N
    /\ (pc = "returned" /\ state.admitted_count = state.N) => ~accept

\* the decisions the loop has tallied, and those among them that admitted a
\* candidate with attribute a
TalliedDecisions == SubSeq(source.decisions, 1, k + rejected_local)

AcceptedWith(a) ==
    Cardinality({i \in 1..Len(TalliedDecisions) :
                    TalliedDecisions[i].accept /\ Has(TalliedDecisions[i].attributes, a)})

\* C10: counts[a] is the number of accepted candidates with attribute a
\* (0 at the start, between 0 and the admitted count), it never decreases
\* and grows by at most 1 per step
AdmittedTallies ==
    /\ [](pc # "start" =>
             \A a \in Constrained :
                 /\ state.counts[a] = AcceptedWith(a)
                 /\ 0 <= state.counts[a] /\ state.counts[a] <= k)
    /\ [][pc # "start" =>
             \A a \in Constrained :
                 /\ state'.counts[a] >= state.counts[a]
                 /\ state'.counts[a] <= state.counts[a] + 1
                 /\ (state'.counts[a] > state.counts[a] => k' = k + 1)]_vars

\* after a rejection, an attribute that some admitted candidates had and
\* others did not
TalliesDiffer ==
    /\ pc = "loop" /\ k >= 2 /\ rejected_local >= 1
    /\ \E a \in Constrained : 0 < state.counts[a] /\ state.counts[a] < k

\* the checkpoint read back: the state of the run when it was written
Persisted == checkpoint[1]

\* the candidate the source handed out last is still to be decided
Pending == res.status = "running" /\ res.nextPerson # <<>>

\* C11: the first request carries no decision, and every candidate the
\* source returns goes once, in order, through observe, refresh, decide,
\* report (with its personIndex), tally, persist: the source receives the
\* decisions of candidates 0, 1, 2, ... one each; the decision is made on
\* the state as observed and refreshed; the tallies and the checkpoint
\* follow the report; the next candidate is the one of the last response.
StepOrder ==
    /\ [](pc \in {"loop", "reported", "done"} =>
            \A i \in 1..Len(source.decisions) :
                source.decisions[i].personIndex = i - 1)
    /\ [](pc = "loop" =>
            /\ state.total_seen = Len(source.decisions)
            /\ k + rejected_local = Len(source.decisions)
            /\ Persisted.total_seen = state.total_seen
            /\ Persisted.admitted = k
            /\ Persisted.rejected_local = rejected_local
            /\ Persisted.counts = state.counts
            /\ Persisted.nextPerson = res.nextPerson
            /\ (Pending => res.nextPerson[1].personIndex = Len(source.decisions)))
    /\ [](pc = "reported" =>
            LET decided == source.decisions[Len(source.decisions)]
            IN  /\ Persisted.nextPerson # <<>>
                /\ decided.personIndex = Persisted.nextPerson[1].personIndex
                /\ decided.attributes = Persisted.nextPerson[1].attributes
                /\ decided.accept = accept
                /\ state.total_seen = Persisted.total_seen + 1
                /\ \A a \in DOMAIN state.freqs :
                       SeenOf(state, a) =
                           (IF a \in DOMAIN Persisted.seen_counts
                            THEN Persisted.seen_counts[a] ELSE 0)
                           + (IF Has(decided.attributes, a) THEN 1 ELSE 0)
                /\ state.freqs =
                       update_adaptive_freqs([state EXCEPT !.freqs = Persisted.freqs],
                                             DEFAULT_K0)
                /\ \E drawn \in DrawsOf(policy) :
                       accept = Decision(<<policy, scenario>>, decided.attributes,
                                         state, rejection_history, drawn[1], drawn[2])
                /\ k = Persisted.admitted
                /\ rejected_local = Persisted.rejected_local
                /\ state.counts = Persisted.counts)
    /\ [][/\ source'.decisions # source.decisions =>
                /\ pc = "loop" /\ pc' = "reported" /\ Pending
                /\ Len(source'.decisions) = Len(source.decisions) + 1
                /\ checkpoint' = checkpoint
          /\ (pc # "start" /\ res' # res) => source'.decisions # source.decisions
          /\ (pc # "start" /\ checkpoint' # checkpoint /\ pc' # "done") =>
                pc = "reported" /\ pc' = "loop" /\ source' = source]_vars

\* witness of C11: three candidates have been through the loop, one of them
\* accepted and one rejected, and a fourth is pending
StepOrderThreeCandidates ==
    /\ pc = "loop"
    /\ Len(source.decisions) = 3
    /\ k >= 1
    /\ rejected_local >= 1
    /\ Pending

\* C12: a run that is stopped anywhere in the loop and resumed from the
\* checkpoint loses and repeats nothing: the source receives one decision
\* per candidate, and whenever the loop is about to take its next step the
\* local tallies k, rejected_local and counts are those of the decisions
\* the source has received.
ResumeExactlyOnce ==
    /\ \A i, j \in 1..Len(source.decisions) :
           i # j => source.decisions[i].personIndex # source.decisions[j].personIndex
    /\ pc = "loop" =>
           /\ k = Cardinality({i \in 1..Len(source.decisions) :
                                   source.decisions[i].accept})
           /\ rejected_local = Cardinality({i \in 1..Len(source.decisions) :
                                                ~source.decisions[i].accept})
           /\ \A a \in DOMAIN state.counts :
                  state.counts[a] =
                      Cardinality({i \in 1..Len(source.decisions) :
                                      /\ source.decisions[i].accept
                                      /\ Has(source.decisions[i].attributes, a)})

\* C13: main run on a checkpoint file that is missing, unreadable or not
\* usable as a checkpoint starts a fresh run and does not end with an error.
CheckpointFallback == outcome.kind # "error"

\* C14: when the loop ends, exactly one of three outcomes is reported:
\* completed, with the source's rejection count, iff the last status is
\* completed; failed iff it is failed; stopped, with the local admitted and
\* rejected counts, in every other case; and the checkpoint is removed on
\* completed and on nothing else.
TerminalOutcomes ==
    [][(pc = "loop" /\ pc' = "done") =>
          /\ ~Pending
          /\ outcome'.kind \in {"completed", "failed", "stopped"}
          /\ outcome'.kind = "completed" <=> res.status = "completed"
          /\ outcome'.kind = "failed" <=> res.status = "failed"
          /\ outcome'.kind = "stopped" <=> res.status \notin {"completed", "failed"}
          /\ outcome'.kind = "completed" => outcome'.numbers = <<res.rejectedCount>>
          /\ outcome'.kind = "stopped" => outcome'.numbers = <<k, rejected_local>>
          /\ checkpoint' = IF res.status = "completed" THEN <<>> ELSE checkpoint]_vars

\* witness of C14: a run resumed from the checkpoint of a game that was
\* over ends stopped, and its checkpoint is kept
StoppedKeepsCheckpoint ==
    /\ pc = "done"
    /\ outcome.kind = "stopped"
    /\ checkpoint # <<>>
    /\ invocations > 1

\* the candidate with every omitted attribute written out as false
Completed(person) == [a \in Attrs |-> IF a \in DOMAIN person THEN person[a] ELSE FALSE]

FrequencyRange ==
    state.total_seen >= 1 =>
        \A a \in DOMAIN state.freqs :
            RLe(Zero, state.freqs[a]) /\ RLe(state.freqs[a], One)

\* C17: with base_start >= 0, the pressure term and the rejection history
\* held fixed, dynamic_threshold and adaptive_threshold_with_history do
\* not increase as admitted_count / N goes from 0 to 1: of two calls with
\* the same pressure term, the one at the larger admitted_count returns no
\* larger threshold.
ThresholdDecay ==
    \A i, j \in 1..Len(outcome.calls) :
        (/\ outcome.calls[i].admitted_count <= outcome.calls[j].admitted_count
         /\ outcome.calls[i].pressure = outcome.calls[j].pressure) =>
            /\ RLe(outcome.calls[j].dynamic, outcome.calls[i].dynamic)
            /\ RLe(outcome.calls[j].adaptive, outcome.calls[i].adaptive)

\* witness of C17: two calls with the same positive pressure term, the
\* second at a full venue, where the adaptive threshold has been scaled by
\* the rejection history and is strictly lower
ThresholdDecayed ==
    /\ pc = "returned"
    /\ state.admitted_count = state.N
    /\ Len(rejection_history) >= ThresholdWindow
    /\ \E i \in 1..Len(outcome.calls) :
           /\ outcome.calls[i].admitted_count = 0
           /\ outcome.calls[i].pressure = MaxPressure(state)
           /\ RLt(Zero, MaxPressure(state))
           /\ RLt(outcome.calls[Len(outcome.calls)].adaptive, outcome.calls[i].adaptive)
           /\ outcome.calls[i].adaptive # outcome.calls[i].dynamic

ShortcutGatedByEndgame ==
    (/\ pc = "reported" /\ Enhanced /\ ~MustReject /\ ~AllMet
     /\ \E a \in Helped : RLt(<<1, 2>>, Criticality(a))
     /\ RemainingAtDecision <= ConfigOf(scenario).endgame_size
     /\ accept) => ~ProjectionShort

\* every frequency estimate of the state lies in [0, 1]
FreqsInRange ==
    \A a \in DOMAIN state.freqs : RLe(Zero, state.freqs[a]) /\ RLe(state.freqs[a], One)

\* C20: for every state and candidate with all freq[a] in [0, 1], if
\* conservative_endgame returns True then hard_safety returns True.
EndgameImpliesGuard ==
    (pc = "returned" /\ FreqsInRange /\ outcome.conservative_endgame)
        => outcome.hard_safety

\* C20, as the code has it: the implication holds in every state with a
\* free slot (admitted_count < N)
EndgameImpliesGuardFreeSlot ==
    (pc = "returned" /\ FreqsInRange /\ state.admitted_count < state.N
        /\ outcome.conservative_endgame) => outcome.hard_safety

\* witness of C20: both checks pass a candidate that lacks an attribute
\* still needed, which the projection expects from the candidates to come
BothChecksPass ==
    /\ pc = "returned" /\ FreqsInRange /\ state.admitted_count < state.N
    /\ outcome.conservative_endgame
    /\ outcome.hard_safety
    /\ \E a \in DOMAIN state.constraints :
           /\ ~Has(res.nextPerson[1].attributes, a)
           /\ state.constraints[a] > state.counts[a]

\* C21: after the n-th observed candidate every estimate is
\* w * prior[a] + (1 - w) * seen_counts[a] / n with w = min(0.9, k0 / n) and
\* prior[a] the value the run started with, whatever the refreshes before.
BlendUsesStartPrior ==
    state.total_seen >= 1 =>
        \E k0 \in K0s :
            \A a \in DOMAIN state.freqs :
                LET w == RMin(<<9, 10>>, Rat(k0, state.total_seen))
                IN  state.freqs[a] =
                        RAdd(RMul(w, Persisted.freqs[a]),
                             RMul(RSub(One, w), Rat(SeenOf(state, a), state.total_seen)))

\* C22: for every total_seen >= 1 the weight update_adaptive_freqs puts on
\* the previous estimate is at least 0.1 and at most 0.9: the estimate moves
\* from the old value towards the observed rate by a share between 0.1 and
\* 0.9 of their distance.
PriorWeightFloor ==
    pc = "returned" =>
        \A a \in DOMAIN state.freqs :
            LET obs == Rat(SeenOf(state, a), state.total_seen)
                w == RDiv(RSub(state.freqs[a], obs), RSub(outcome.before[a], obs))
            IN  outcome.before[a] # obs => RLe(<<1, 10>>, w) /\ RLe(w, <<9, 10>>)

\* the decisions a checkpoint on file covers: all the source has received,
\* but for the one reported and not yet tallied
Covered ==
    IF pc = "reported" THEN SubSeq(source.decisions, 1, Len(source.decisions) - 1)
    ELSE source.decisions

\* C23: every checkpoint main has written is one of a step boundary:
\* total_seen = admitted + rejected_local; admitted, rejected_local and
\* counts are the tallies of every decision reported up to the write, the
\* last one included; rejection_history is the last CHECKPOINT_HISTORY of
\* these decisions and no more; nextPerson is the candidate of the response
\* to the last of them, the one no decision has been reported for.
CheckpointAtStepBoundary ==
    checkpoint # <<>> =>
        LET n == Len(Covered)
            kept == IF n > CHECKPOINT_HISTORY THEN CHECKPOINT_HISTORY ELSE n
        IN  /\ Persisted.total_seen = Persisted.admitted + Persisted.rejected_local
            /\ Persisted.total_seen = n
            /\ Persisted.admitted = Cardinality({i \in 1..n : Covered[i].accept})
            /\ Persisted.rejected_local = Cardinality({i \in 1..n : ~Covered[i].accept})
            /\ \A a \in DOMAIN Persisted.counts :
                   Persisted.counts[a] =
                       Cardinality({i \in 1..n :
                           /\ Covered[i].accept
                           /\ a \in DOMAIN Covered[i].attributes
                           /\ Covered[i].attributes[a]})
            /\ Len(Persisted.rejection_history) = kept
            /\ \A i \in 1..kept :
                   Persisted.rejection_history[i] =
                       (IF Covered[n - kept + i].accept THEN 0 ELSE 1)
            /\ Persisted.nextPerson # <<>> =>
                   /\ Persisted.nextPerson[1].personIndex = n
                   /\ \A i \in 1..n : Covered[i].personIndex # n
            /\ pc = "loop" => Persisted.nextPerson = res.nextPerson
            /\ pc = "reported" =>
                   /\ Persisted.nextPerson # <<>>
                   /\ source.decisions[n + 1].personIndex = Persisted.nextPerson[1].personIndex

\* witness of C23: a checkpoint written after more decisions than it keeps,
\* both kinds among them, with a candidate pending
CheckpointCutsHistory ==
    /\ pc = "loop" /\ checkpoint # <<>>
    /\ Len(rejection_history) > CHECKPOINT_HISTORY
    /\ Len(Persisted.rejection_history) = CHECKPOINT_HISTORY
    /\ Persisted.admitted >= 1 /\ Persisted.rejected_local >= 1
    /\ Persisted.nextPerson # <<>>

\* the GameState a checkpoint was written from
Saved ==
    [N |-> Persisted.N, constraints |-> Persisted.constraints,
     counts |-> Persisted.counts, freqs |-> Persisted.freqs, corr |-> Persisted.corr,
     admitted_count |-> Persisted.admitted, rejected_local |-> Persisted.rejected_local,
     seen_counts |-> Persisted.seen_counts, total_seen |-> Persisted.total_seen,
     accept_all_after_min_met |-> Persisted.accept_all_after_min_met]

\* the decisions a run can have recorded before those its checkpoint kept
LostHistories ==
    IF Len(Persisted.rejection_history) < CHECKPOINT_HISTORY THEN {<<>>}
    ELSE {<<>>, <<0>>, <<1>>, <<0, 0>>, <<0, 1>>, <<1, 0>>, <<1, 1>>}

\* C24: a run resumed from a checkpoint starts from the GameState that was
\* saved, field by field, with the constraints as saved (no second safety
\* buffer), the saved tallies and the saved pending candidate; and its
\* decision on a candidate is the one decide_enhanced makes on the saved
\* state with the whole history of the run that wrote the checkpoint.
ResumeRoundTrip ==
    [][/\ (pc = "start" /\ pc' = "loop" /\ checkpoint # <<>>) =>
              /\ \A f \in DOMAIN Saved : state'[f] = Saved[f]
              /\ DOMAIN state' = DOMAIN Saved
              /\ k' = Persisted.admitted
              /\ rejected_local' = Persisted.rejected_local
              /\ res'.status = "running"
              /\ res'.nextPerson = Persisted.nextPerson
       /\ (pc = "loop" /\ pc' = "reported" /\ invocations > 1) =>
              \A seen \in {Observed(Saved, Persisted.admitted, Persisted.rejected_local,
                                      Persisted.nextPerson[1].attributes)} :
                  \A lost \in LostHistories :
                      accept' = decide_enhanced(Persisted.nextPerson[1].attributes, seen,
                                                scenario, lost \o Persisted.rejection_history)]_vars

\* witness of C24: a resumed run has decided a candidate from a checkpoint
\* that had cut the history and held buffered constraints with one still
\* short
ResumedDecision ==
    /\ invocations > 1
    /\ pc = "reported"
    /\ state.total_seen = Persisted.total_seen + 1
    /\ Persisted.total_seen > CHECKPOINT_HISTORY
    /\ \E a \in DOMAIN Persisted.constraints :
           Persisted.constraints[a] > Persisted.counts[a]

(***************************************************************************)
(* scenario2.decide called on its own, at the capacity of the runs and at  *)
(* one that leaves more than ENDGAME_REMAINING slots.                      *)
(***************************************************************************)
Scenario2States ==
    {GameState(N, M, counts, [a \in Attrs |-> freq], <<>>, admitted, 0,
               [a \in Attrs |-> 0], admitted + 1, FALSE) :
        N \in {DEFAULT_N, LARGE_N}, M \in MinCounts, counts \in [Attrs -> 0..DEFAULT_N],
        freq \in {<<1, 5>>, <<1, 1>>},
        admitted \in (0..DEFAULT_N) \cup {LARGE_N - ENDGAME_REMAINING - 1,
                                          LARGE_N - ENDGAME_REMAINING, LARGE_N - 1}}

InitScenario2 ==
    /\ pc = "call"
    /\ policy = "scenario2"
    /\ scenario = 2
    /\ state \in {st \in Scenario2States :
                     /\ st.admitted_count <= st.N
                     /\ \A a \in Attrs : st.counts[a] <= st.admitted_count}
    /\ k = state.admitted_count
    /\ rejected_local = 0
    /\ rejection_history = <<>>
    /\ source = NewGame
    /\ \E person \in Persons : res = Running(source, person)
    /\ accept = FALSE
    /\ checkpoint = <<>>
    /\ outcome = NoOutcome
    /\ ACCEPTED_WINDOW = <<>>
    /\ invocations = 1

CallScenario2 ==
    /\ pc = "call"
    /\ \E rest \in BOOLEAN :
           accept' = scenario2_decide(res.nextPerson[1].attributes, state, rest)
    /\ pc' = "returned"
    /\ UNCHANGED <<scenario, policy, state, k, rejected_local, rejection_history, res,
                   checkpoint, source, outcome, ACCEPTED_WINDOW, invocations>>

SpecScenario2 == InitScenario2 /\ [][CallScenario2]_vars

\* C25: when scenario2.decide is called with counts[a] >= constraints[a]
\* for every constrained attribute and a slot left, it accepts, whatever
\* the candidate carries and however many slots are left.
Scenario2AcceptAll ==
    (/\ pc = "returned"
     /\ state.admitted_count < state.N
     /\ \A a \in DOMAIN state.constraints : state.counts[a] >= state.constraints[a])
        => accept

\* C26: in a run decided by scenario1.decide, whenever the loop is about to
\* take a step with a free slot, every constraint is still within reach:
\* need[a] <= N - admitted for every constrained attribute a.
Scenario1KeepsReachable ==
    (policy = "scenario1" /\ pc = "loop" /\ k < state.N) =>
        \A a \in DOMAIN state.constraints :
            Max(0, state.constraints[a] - state.counts[a]) <= state.N - k

\* C27: when scenario1.decide is called with one of its two minimums met
\* and the other not, and the feasibility guard forces nothing, a candidate
\* without the unmet attribute (one with only the met attribute, or one
\* with neither) is rejected.
PhaseBOnlyUnmet ==
    (/\ pc = "reported" /\ policy = "scenario1"
     /\ Cardinality(Constrained) = 2
     /\ \A a \in Constrained : state.constraints[a] > 0
     /\ Cardinality({a \in Constrained : NeedOf(a) = 0}) = 1
     /\ ~MustAccept /\ ~MustReject
     /\ \E a \in Constrained : NeedOf(a) > 0 /\ ~Has(Candidate, a))
        => ~accept

(***************************************************************************)
(* decide_enhanced called on any state with N > 0, 0 <= admitted_count <=  *)
(* N and total_seen >= 1, the tallies and the needs unrestricted: the call *)
(* returns a boolean or ends with a ZeroDivisionError.                     *)
(***************************************************************************)
DivisorStates ==
    {GameState(DEFAULT_N, M, counts, freqs, stats.correlations, admitted, 0,
               [a \in Attrs |-> 0], total_seen, FALSE) :
        M \in MinCounts, counts \in [Attrs -> {0, DEFAULT_N - 1, DEFAULT_N}],
        freqs \in [Attrs -> {Zero, <<1, 5>>, One}],
        stats \in Statistics, admitted \in 0..DEFAULT_N, total_seen \in {1, 2}}

InitDivisors ==
    /\ pc = "call"
    /\ policy = "decide_enhanced"
    /\ scenario \in {1, 2, 3}
    /\ state \in DivisorStates
    /\ k = state.admitted_count
    /\ rejected_local = 0
    /\ rejection_history \in {<<>>, <<1>>, <<0, 1>>}
    /\ source = NewGame
    /\ \E person \in Persons : res = Running(source, person)
    /\ accept = FALSE
    /\ checkpoint = <<>>
    /\ outcome = NoOutcome
    /\ ACCEPTED_WINDOW = <<>>
    /\ invocations = 1

CallDivisors ==
    /\ pc = "call"
    /\ \E divisors \in {decide_enhanced_divisors(res.nextPerson[1].attributes, state,
                                                 scenario, rejection_history)} :
           IF 0 \in divisors
           THEN /\ outcome' = [kind |-> "error", numbers |-> <<>>]
                /\ accept' = FALSE
           ELSE /\ outcome' = [kind |-> "returned", numbers |-> <<>>]
                /\ accept' = decide_enhanced(res.nextPerson[1].attributes, state,
                                             scenario, rejection_history)
    /\ pc' = "returned"
    /\ UNCHANGED <<scenario, policy, state, k, rejected_local, rejection_history, res,
                   checkpoint, source, ACCEPTED_WINDOW, invocations>>

SpecDivisors == InitDivisors /\ [][CallDivisors]_vars

\* C28: for every state with N > 0, 0 <= admitted_count <= N and
\* total_seen >= 1 and every candidate, decide_enhanced returns a boolean
\* and no division by zero ends the call.
NoDivisionByZero ==
    (pc = "returned" /\ state.N > 0 /\ state.admitted_count \in 0..state.N
        /\ state.total_seen >= 1)
        => (outcome.kind = "returned" /\ accept \in BOOLEAN)

\* witness of C28: a call with no slot left, a minimum still short and a
\* positively correlated attribute on the candidate has returned
FullHouseDecided ==
    /\ pc = "returned" /\ outcome.kind = "returned"
    /\ state.admitted_count = state.N
    /\ \E a \in DOMAIN state.constraints :
           /\ state.constraints[a] > state.counts[a]
           /\ \E b \in DOMAIN state.constraints \ {a} :
                  /\ Has(res.nextPerson[1].attributes, b)
                  /\ <<b, a>> \in DOMAIN state.corr
                  /\ RLt(Zero, state.corr[<<b, a>>])
    /\ accept

\* C29: when main is run again on the checkpoint kept from a game the
\* source has reported failed, it does not end with "stopped" (the line
\* that reads status=running): it reports failed again or plays a fresh
\* game.
FailedStaysTerminal ==
    (/\ pc = "done" /\ invocations > 1
     /\ source.admitted < DEFAULT_N /\ Len(source.decisions) >= MaxSeen
     /\ checkpoint # <<>> /\ Persisted.nextPerson = <<>>)
        => outcome.kind # "stopped"

(***************************************************************************)
(* scenario1.decide called on its own in a process whose _ACCEPTED_WINDOW  *)
(* holds what earlier calls accepted: nothing (a process just started, as  *)
(* after a resume) or candidates the tallies of the state account for.     *)
(***************************************************************************)
AcceptedWindows ==
    {<<>>,
     [i \in 1..50 |-> [a \in Attrs |-> IF a = A_C THEN i <= 10 ELSE i > 40]],
     [i \in 1..20 |-> [a \in Attrs |-> a = A_W /\ i <= 10]]}

Scenario1States ==
    {GameState(LARGE_N, M, counts, [a \in Attrs |-> freq], <<>>, admitted, 0,
               [a \in Attrs |-> 0], admitted + 1, FALSE) :
        M \in [Attrs -> {0, 15, 23, 40}], counts \in [Attrs -> {0, 10, 25}],
        freq \in {<<1, 5>>, <<1, 2>>}, admitted \in {25, 50, LARGE_N - 2}}

\* the windows a process can hold when it is called with state st: no more
\* candidates than were admitted, no more of an attribute than were counted
WindowsOf(st) ==
    {w \in AcceptedWindows :
        /\ Len(w) <= st.admitted_count
        /\ \A a \in Attrs :
               Cardinality({i \in 1..Len(w) : w[i][a]}) <= st.counts[a]}

InitScenario1 ==
    /\ pc = "call"
    /\ policy = "scenario1"
    /\ scenario = 1
    /\ state \in {st \in Scenario1States :
                     \A a \in Attrs : st.counts[a] <= st.admitted_count}
    /\ ACCEPTED_WINDOW \in WindowsOf(state)
    /\ k = state.admitted_count
    /\ rejected_local = 0
    /\ rejection_history = <<>>
    /\ source = NewGame
    /\ \E person \in Persons : res = Running(source, person)
    /\ accept = FALSE
    /\ checkpoint = <<>>
    /\ outcome = NoOutcome
    /\ invocations = 1

CallScenario1 ==
    /\ pc = "call"
    /\ \E decision \in {scenario1_decide_window(res.nextPerson[1].attributes, state,
                                                ACCEPTED_WINDOW)} :
           /\ accept' = decision
           /\ ACCEPTED_WINDOW' = IF decision
                                 THEN scenario1_record_accept(ACCEPTED_WINDOW,
                                                              res.nextPerson[1].attributes)
                                 ELSE ACCEPTED_WINDOW
    /\ pc' = "returned"
    /\ UNCHANGED <<scenario, policy, state, k, rejected_local, rejection_history, res,
                   checkpoint, source, outcome, invocations>>

SpecScenario1 == InitScenario1 /\ [][CallScenario1]_vars

\* C30: the decision of scenario1.decide on (person, state,
\* rejection_history) is the same whatever _ACCEPTED_WINDOW holds from the
\* calls before: the one a process with an empty window makes.
WindowIndependent ==
    [][pc = "call" =>
          \A window \in WindowsOf(state) :
              accept' = scenario1_decide_window(res.nextPerson[1].attributes, state,
                                                window)]_vars

====
